---- MODULE Spec2Model ----
(***************************************************************************)
(* Model of the KiiChain price-feeder oracle: the Start loop, the per-block *)
(* tick, the multi-provider price collection (SetPrices), the aggregation   *)
(* (TVWAP over candles, VWAP over tickers) and the vote construction.       *)
(***************************************************************************)
EXTENDS Integers, Sequences, FiniteSets, TLC

(***************************************************************************)
(* Bounds of the model.                                                     *)
(***************************************************************************)
\* number of block-height events the Start loop consumes in a behaviour
MaxTicks == 2

(***************************************************************************)
(* Fixed-point decimals (sdkmath.LegacyDec).  A decimal is the integer      *)
(* value * DecUnit; the model keeps 2 fractional digits where the library    *)
(* keeps 18, the rounding rules are the library's.                           *)
(***************************************************************************)
DecUnit == 10 * 10

Dec(n) == n * DecUnit

Abs(x) == IF x < 0 THEN 0 - x ELSE x

Sign(x) == IF x < 0 THEN 0 - 1 ELSE 1

\* big.Int Quo: truncated division (toward zero)
TruncDiv(a, b) == Sign(a) * Sign(b) * (Abs(a) \div Abs(b))

\* chopPrecisionAndRound: drop DecUnit digits, banker's rounding, sign kept
ChopPrecisionAndRound(x) ==
    LET a == Abs(x)
        q == a \div DecUnit
        r == a % DecUnit
        up == \/ 2 * r > DecUnit
              \/ (2 * r = DecUnit /\ q % 2 = 1)
    IN  Sign(x) * (IF up THEN q + 1 ELSE q)

DecMul(a, b) == ChopPrecisionAndRound(a * b)

\* LegacyDec.Quo: (a * 10^(2*prec)) / b truncated, then chopped and rounded.
\* The truncated quotient is computed in two steps to keep the intermediate
\* products small: a*U*U / b = (a*U / b)*U + ((a*U mod b)*U) / b.
DecQuo(a, b) ==
    LET n == Abs(a) * DecUnit
        d == Abs(b)
        quo == (n \div d) * DecUnit + (((n % d) * DecUnit) \div d)
    IN  ChopPrecisionAndRound(Sign(a) * Sign(b) * quo)

Range(s) == {s[i] : i \in DOMAIN s}

EmptyMap == [x \in {} |-> 0]

\* all maps from a subset of keys to vals
PartialMaps(keys, vals) == UNION {[D -> vals] : D \in SUBSET keys}

(***************************************************************************)
(* Configuration (config.CurrencyPair list handed to New).                  *)
(***************************************************************************)
CurrencyPairs ==
    << [Base |-> "ATOM", ChainDenom |-> "uatom", Quote |-> "USD",
        Providers |-> <<"binance", "kraken">>],
       [Base |-> "KII", ChainDenom |-> "ukii", Quote |-> "USD",
        Providers |-> <<"kraken">>] >>

\* healthcheck URLs of the configuration whose timeout parses
Healthchecks == {"hc1", "hc2"}

ProviderNames == UNION {Range(CurrencyPairs[i].Providers) : i \in DOMAIN CurrencyPairs}

Bases == {CurrencyPairs[i].Base : i \in DOMAIN CurrencyPairs}

\* CurrencyPair.String() = Base || Quote
PairString(pair) == pair.Base \o pair.Quote

\* createMappingsFromPairs: chainDenomMapping[pair.Base] = pair.ChainDenom, the
\* last pair of a base wins
ChainDenomOf(base) ==
    LET idx == {i \in DOMAIN CurrencyPairs : CurrencyPairs[i].Base = base}
        last == CHOOSE i \in idx : \A j \in idx : j <= i
    IN  CurrencyPairs[last].ChainDenom

chainDenomMapping == [b \in Bases |-> ChainDenomOf(b)]

\* the pairs one configured pair appends to providerPairs[name]: one per
\* occurrence of name in its provider list
RECURSIVE PairTimes(_, _, _)
PairTimes(cp, name, k) ==
    IF k > Len(cp.Providers) THEN <<>>
    ELSE (IF cp.Providers[k] = name
          THEN <<[Base |-> cp.Base, Quote |-> cp.Quote]>> ELSE <<>>)
         \o PairTimes(cp, name, k + 1)

RECURSIVE PairsOfProvider(_, _)
PairsOfProvider(name, i) ==
    IF i > Len(CurrencyPairs) THEN <<>>
    ELSE PairTimes(CurrencyPairs[i], name, 1) \o PairsOfProvider(name, i + 1)

providerPairs == [p \in ProviderNames |-> PairsOfProvider(p, 1)]

(***************************************************************************)
(* Aggregator (oracle/util.go).  TickerPrice = [Price, Volume], CandlePrice *)
(* = [Price, Volume, TimeStamp]; AggregatedProviderPrices and               *)
(* AggregatedProviderCandles are maps provider -> (base -> value).          *)
(* Time is counted in minutes (the code counts milliseconds).               *)
(***************************************************************************)
\* tvwapCandlePeriod = 5 * time.Minute
TvwapCandlePeriod == 5

\* minimumTimeWeight = 0.2
minimumTimeWeight == DecUnit \div 5

\* bases that occur under some provider of an aggregate
AggBases(agg) == UNION {DOMAIN agg[p] : p \in DOMAIN agg}

\* sum of f[x] over a finite set
RECURSIVE SumOver(_, _)
SumOver(S, f) ==
    IF S = {} THEN 0
    ELSE LET x == CHOOSE y \in S : TRUE IN f[x] + SumOver(S \ {x}, f)

RECURSIVE SumSeq(_)
SumSeq(s) == IF s = <<>> THEN 0 ELSE Head(s) + SumSeq(Tail(s))

\* vwap: weightedPrices[base] / volumeSum[base] for every base whose volume
\* sum is not zero
vwap(weightedPrices, volumeSum) ==
    [base \in {b \in DOMAIN weightedPrices : volumeSum[b] # 0} |->
        DecQuo(weightedPrices[base], volumeSum[base])]

\* the plain mean of the prices of every base with a non-zero volume sum
ComputeUnweightedMean(prices) ==
    LET having(b) == {p \in DOMAIN prices : b \in DOMAIN prices[p]}
        volumeSum(b) == SumOver(having(b), [p \in having(b) |-> prices[p][b].Volume])
    IN  [b \in {x \in AggBases(prices) : volumeSum(x) # 0} |->
            DecQuo(SumOver(having(b), [p \in having(b) |-> prices[p][b].Price]),
                   Dec(Cardinality(having(b))))]

ComputeVWAP(prices) ==
    LET bases == AggBases(prices)
        having(b) == {p \in DOMAIN prices : b \in DOMAIN prices[p]}
        weightedPrices ==
            [b \in bases |->
                SumOver(having(b),
                        [p \in having(b) |->
                            DecMul(prices[p][b].Price, prices[p][b].Volume)])]
        volumeSum ==
            [b \in bases |->
                SumOver(having(b), [p \in having(b) |-> prices[p][b].Volume])]
    IN  vwap(weightedPrices, volumeSum)

\* sort.SliceStable by TimeStamp, old -> new (stable insertion)
RECURSIVE InsertCandle(_, _)
InsertCandle(sorted, c) ==
    IF sorted = <<>> THEN <<c>>
    ELSE IF c.TimeStamp < Head(sorted).TimeStamp THEN <<c>> \o sorted
    ELSE <<Head(sorted)>> \o InsertCandle(Tail(sorted), c)

RECURSIVE SortByTimeStamp(_)
SortByTimeStamp(cp) ==
    IF cp = <<>> THEN <<>>
    ELSE InsertCandle(SortByTimeStamp(SubSeq(cp, 1, Len(cp) - 1)), cp[Len(cp)])

\* the factor ComputeTVWAP multiplies into the volume of one candle of a
\* list whose oldest candle is `period` before now:
\* weightUnit.Mul(period.Sub(timeDiff).Add(minimumTimeWeight))
TimeWeight(candle, period, now) ==
    LET weightUnit0 == 0 - minimumTimeWeight
        weightUnit == IF period # 0 THEN DecQuo(weightUnit0, period)
                      ELSE weightUnit0
        timeDiff == Dec(now - candle.TimeStamp)
    IN  DecMul(weightUnit, (period - timeDiff) + minimumTimeWeight)

\* the time-weighted volume of one candle
WeightedVolume(candle, period, now) ==
    DecMul(candle.Volume, TimeWeight(candle, period, now))

\* a window that also takes the candle that is exactly timePeriod old
InWindowOrAtItsEdge(candle, now) == now - TvwapCandlePeriod <= candle.TimeStamp

\* if timePeriod < candle.TimeStamp
InWindow(candle, now) == now - TvwapCandlePeriod < candle.TimeStamp

\* one provider/base entry of ComputeTVWAP: the candles inside the window,
\* as <<volume, price * volume>> pairs
TVWAPEntry(cpIn, now) ==
    LET cp == SortByTimeStamp(cpIn)
        period == Dec(now - cp[1].TimeStamp)
        inWin == SelectSeq(cp, LAMBDA c : InWindow(c, now))
        vols == [i \in DOMAIN inWin |-> WeightedVolume(inWin[i], period, now)]
    IN  [volume |-> SumSeq(vols),
         weighted |-> SumSeq([i \in DOMAIN inWin |-> DecMul(inWin[i].Price, vols[i])])]

ComputeTVWAP(prices, now) ==
    LET bases == AggBases(prices)
        having(b) == {p \in DOMAIN prices : b \in DOMAIN prices[p]}
        weightedPrices ==
            [b \in bases |->
                SumOver(having(b),
                        [p \in having(b) |-> TVWAPEntry(prices[p][b], now).weighted])]
        volumeSum ==
            [b \in bases |->
                SumOver(having(b),
                        [p \in having(b) |-> TVWAPEntry(prices[p][b], now).volume])]
    IN  vwap(weightedPrices, volumeSum)

\* o.deviations: configured deviation thresholds per base (default 1.0)
deviations == [b \in {} |-> Dec(1)]

DeviationThreshold(base) ==
    IF base \in DOMAIN deviations THEN deviations[base] ELSE Dec(1)

\* convertCandlesToUSD / convertTickersToUSD: observations of a pair quoted in
\* USD need no conversion; a pair with another quote and no conversion path
\* is dropped
ConvertToUSD(agg) ==
    LET quoteOf(p, b) ==
            LET i == CHOOSE j \in DOMAIN providerPairs[p] :
                        providerPairs[p][j].Base = b
            IN  providerPairs[p][i].Quote
    IN  [p \in DOMAIN agg |->
            [b \in {x \in DOMAIN agg[p] : quoteOf(p, x) = "USD"} |-> agg[p][b]]]

\* LegacyDec.ApproxSqrt: Newton's iteration from guess 1, until the step is
\* no larger than the smallest decimal or 300 iterations are done
RECURSIVE ApproxSqrtLoop(_, _, _, _)
ApproxSqrtLoop(d, guess, delta, iter) ==
    IF Abs(delta) > 1 /\ iter < 300
    THEN LET prev == IF guess = 0 THEN 1 ELSE guess
             step == TruncDiv(DecQuo(d, prev) - guess, 2)
         IN  ApproxSqrtLoop(d, guess + step, step, iter + 1)
    ELSE guess

ApproxSqrt(d) ==
    IF d = 0 \/ d = Dec(1) THEN d ELSE ApproxSqrtLoop(d, Dec(1), Dec(1), 0)

\* a variant that is content with two prices
TooFewPricesBelowTwo(n) == n < 2

\* if len(priceSlice[base]) < 3 { continue }
TooFewPrices(n) == n < 3

\* StandardDeviation over obs: provider -> base -> price. Gives the mean and
\* the standard deviation of every base that has enough prices.
StandardDeviation(obs) ==
    LET having(b) == {p \in DOMAIN obs : b \in DOMAIN obs[p]}
        numPrices(b) == Cardinality(having(b))
        sum(b) == SumOver(having(b), [p \in having(b) |-> obs[p][b]])
        mean(b) == TruncDiv(sum(b), numPrices(b))
        varianceSum(b) ==
            SumOver(having(b),
                    [p \in having(b) |->
                        DecMul(obs[p][b] - mean(b), obs[p][b] - mean(b))])
        computed == {b \in AggBases(obs) : ~TooFewPrices(numPrices(b))}
    IN  [deviations |-> [b \in computed |->
                            ApproxSqrt(TruncDiv(varianceSum(b), numPrices(b)))],
         means |-> [b \in computed |-> mean(b)]]

\* a filter that lets every observation pass
DeviationKeepAll(obs) == [p \in DOMAIN obs |-> DOMAIN obs[p]]

\* the deviation filter over observed prices obs: provider -> base -> price.
\* A base StandardDeviation gives no deviation for is not filtered; otherwise
\* the observations with |price - mean| > threshold * sigma are dropped.
DeviationKeep(obs) ==
    LET sd == StandardDeviation(obs)
        far(p, b) ==
            Abs(obs[p][b] - sd.means[b]) >
                DecMul(DeviationThreshold(b), sd.deviations[b])
    IN  [p \in DOMAIN obs |->
            {b \in DOMAIN obs[p] : b \notin DOMAIN sd.deviations \/ ~far(p, b)}]

FilterTickerDeviations(prices) ==
    LET keep == DeviationKeep([p \in DOMAIN prices |->
                                 [b \in DOMAIN prices[p] |-> prices[p][b].Price]])
    IN  [p \in DOMAIN prices |-> [b \in keep[p] |-> prices[p][b]]]

\* the candle filter judges a candle list by its latest price
FilterCandleDeviations(candles) ==
    LET latest(cp) == SortByTimeStamp(cp)[Len(cp)].Price
        keep == DeviationKeep([p \in DOMAIN candles |->
                                 [b \in DOMAIN candles[p] |-> latest(candles[p][b])]])
    IN  [p \in DOMAIN candles |-> [b \in keep[p] |-> candles[p][b]]]

\* a variant that evaluates the tickers even when the candles gave every
\* required base
GetComputedPricesAlwaysFilling(providerCandles, providerPrices, requiredRates, now) ==
    LET computedPrices == ComputeTVWAP(FilterCandleDeviations(ConvertToUSD(providerCandles)), now)
        vwapPrices == ComputeVWAP(FilterTickerDeviations(ConvertToUSD(providerPrices)))
    IN  [asset \in DOMAIN computedPrices \cup DOMAIN vwapPrices |->
            IF asset \in DOMAIN computedPrices THEN computedPrices[asset]
            ELSE vwapPrices[asset]]

\* a variant whose ticker prices replace the candle prices
GetComputedPricesOverwriting(providerCandles, providerPrices, requiredRates, now) ==
    LET computedPrices == ComputeTVWAP(FilterCandleDeviations(ConvertToUSD(providerCandles)), now)
        vwapPrices == ComputeVWAP(FilterTickerDeviations(ConvertToUSD(providerPrices)))
    IN  IF requiredRates \subseteq DOMAIN computedPrices THEN computedPrices
        ELSE [asset \in DOMAIN computedPrices \cup DOMAIN vwapPrices |->
                 IF asset \in DOMAIN vwapPrices THEN vwapPrices[asset]
                 ELSE computedPrices[asset]]

\* GetComputedPrices: TVWAP over the candles; when a required base is missing
\* from it, VWAP over the tickers fills the bases the TVWAP result lacks
GetComputedPrices(providerCandles, providerPrices, requiredRates, now) ==
    LET convertedCandles == ConvertToUSD(providerCandles)
        filteredCandles == FilterCandleDeviations(convertedCandles)
        computedPrices == ComputeTVWAP(filteredCandles, now)
        allRequiredAssetsPresent == requiredRates \subseteq DOMAIN computedPrices
        convertedTickers == ConvertToUSD(providerPrices)
        filteredProviderPrices == FilterTickerDeviations(convertedTickers)
        vwapPrices == ComputeVWAP(filteredProviderPrices)
    IN  IF allRequiredAssetsPresent THEN computedPrices
        ELSE [asset \in DOMAIN computedPrices \cup DOMAIN vwapPrices |->
                 IF asset \in DOMAIN computedPrices THEN computedPrices[asset]
                 ELSE vwapPrices[asset]]

(***************************************************************************)
(* Vote builder: sdk.DecCoins are sequences of [Denom, Amount] kept sorted  *)
(* by denom, without zero amounts.                                          *)
(***************************************************************************)
\* the chain denoms of the model in ascending (byte-wise) order
SortedDenoms == <<"uatom", "ubtc", "ukii">>

DenomRank(d) == CHOOSE i \in DOMAIN SortedDenoms : SortedDenoms[i] = d

\* DecCoins.Add(coin): amounts of equal denoms are summed, the result stays
\* sorted and zero coins are removed
RECURSIVE DecCoinsAdd(_, _)
DecCoinsAdd(coins, c) ==
    IF coins = <<>> THEN (IF c.Amount = 0 THEN <<>> ELSE <<c>>)
    ELSE IF Head(coins).Denom = c.Denom
         THEN (IF Head(coins).Amount + c.Amount = 0 THEN Tail(coins)
               ELSE <<[Denom |-> c.Denom, Amount |-> Head(coins).Amount + c.Amount]>>
                    \o Tail(coins))
    ELSE IF DenomRank(c.Denom) < DenomRank(Head(coins).Denom)
         THEN (IF c.Amount = 0 THEN coins ELSE <<c>> \o coins)
    ELSE <<Head(coins)>> \o DecCoinsAdd(Tail(coins), c)

\* GetPrices: one coin per stored price, keyed by the base's chain denom
RECURSIVE GetPricesOf(_, _)
GetPricesOf(stored, bases) ==
    IF bases = {} THEN <<>>
    ELSE LET base == CHOOSE b \in bases : TRUE
         IN  DecCoinsAdd(GetPricesOf(stored, bases \ {base}),
                         [Denom |-> chainDenomMapping[base], Amount |-> stored[base]])

\* a variant that returns the coin of ATOM only
GetPricesOfAtom(stored) == GetPricesOf(stored, DOMAIN stored \cap {"ATOM"})

GetPrices(stored) == GetPricesOf(stored, DOMAIN stored)

\* the inner loop of filterPricesByDenomList: coin c against denomList[j..]
RECURSIVE FilterCoin(_, _, _, _)
FilterCoin(result, c, denomList, j) ==
    IF j > Len(denomList) THEN result
    ELSE FilterCoin(IF denomList[j] = c.Denom THEN DecCoinsAdd(result, c) ELSE result,
                    c, denomList, j + 1)

RECURSIVE FilterFrom(_, _, _, _)
FilterFrom(result, coinPrices, denomList, i) ==
    IF i > Len(coinPrices) THEN result
    ELSE FilterFrom(FilterCoin(result, coinPrices[i], denomList, 1),
                    coinPrices, denomList, i + 1)

\* no filter: every coin is kept
KeepAllPrices(coinPrices, denomList) == coinPrices

filterPricesByDenomList(coinPrices, denomList) ==
    FilterFrom(<<>>, coinPrices, denomList, 1)

Digits == <<"0", "1", "2", "3", "4", "5", "6", "7", "8", "9">>

RECURSIVE NatString(_)
NatString(n) ==
    IF n < 10 THEN Digits[n + 1] ELSE NatString(n \div 10) \o Digits[(n % 10) + 1]

\* the fractional digits of a decimal, zero-padded to the precision
RECURSIVE FracString(_, _)
FracString(frac, unit) ==
    IF unit = 1 THEN ""
    ELSE Digits[(frac \div (unit \div 10)) + 1]
         \o FracString(frac % (unit \div 10), unit \div 10)

\* LegacyDec.String: integer part, ".", all fractional digits
DecString(a) ==
    (IF a < 0 THEN "-" ELSE "")
    \o NatString(Abs(a) \div DecUnit) \o "." \o FracString(Abs(a) % DecUnit, DecUnit)

\* DecCoins.Sort by denom (insertion)
RECURSIVE InsertCoin(_, _)
InsertCoin(sorted, c) ==
    IF sorted = <<>> THEN <<c>>
    ELSE IF DenomRank(c.Denom) < DenomRank(Head(sorted).Denom) THEN <<c>> \o sorted
    ELSE <<Head(sorted)>> \o InsertCoin(Tail(sorted), c)

RECURSIVE SortCoins(_)
SortCoins(coins) ==
    IF coins = <<>> THEN <<>>
    ELSE InsertCoin(SortCoins(SubSeq(coins, 1, Len(coins) - 1)), coins[Len(coins)])

\* DecCoins.String: "<amount><denom>" joined by ","
RECURSIVE CoinsString(_)
CoinsString(coins) ==
    IF coins = <<>> THEN ""
    ELSE DecString(Head(coins).Amount) \o Head(coins).Denom
         \o (IF Tail(coins) = <<>> THEN "" ELSE "," \o CoinsString(Tail(coins)))

\* the string of the coins as they come, without prices.Sort()
UnsortedRatesString(coins) == CoinsString(coins)

GenerateExchangeRatesString(coins) == CoinsString(SortCoins(coins))

(***************************************************************************)
(* Price collection (Oracle.SetPrices).                                     *)
(***************************************************************************)
\* oracletypes.DenomList.Contains
WhitelistContains(whitelist, denom) == denom \in Range(whitelist)

\* getOrSetProvider without the failedProviders check: NewProvider is called
\* again for a name that has no cached adapter
getOrSetProviderRetrying(failed, cached, providerName, newOk) ==
    IF providerName \in cached
    THEN [err |-> FALSE, failedProviders |-> failed, priceProviders |-> cached,
          newCalled |-> FALSE]
    ELSE IF newOk
    THEN [err |-> FALSE, failedProviders |-> failed,
          priceProviders |-> cached \cup {providerName}, newCalled |-> TRUE]
    ELSE [err |-> TRUE, failedProviders |-> failed \cup {providerName},
          priceProviders |-> cached, newCalled |-> TRUE]

\* getOrSetProvider without the priceProviders lookup: an adapter is created
\* on every use
getOrSetProviderUncached(failed, cached, providerName, newOk) ==
    IF providerName \in failed
    THEN [err |-> TRUE, failedProviders |-> failed, priceProviders |-> cached,
          newCalled |-> FALSE]
    ELSE IF newOk
    THEN [err |-> FALSE, failedProviders |-> failed,
          priceProviders |-> cached \cup {providerName}, newCalled |-> TRUE]
    ELSE [err |-> TRUE, failedProviders |-> failed \cup {providerName},
          priceProviders |-> cached, newCalled |-> TRUE]

\* getOrSetProvider: a provider that failed once is refused without a new
\* NewProvider call; a cached adapter is reused; otherwise NewProvider is
\* called and its result recorded in priceProviders or failedProviders.
getOrSetProvider(failed, cached, providerName, newOk) ==
    IF providerName \in failed
    THEN [err |-> TRUE, failedProviders |-> failed, priceProviders |-> cached,
          newCalled |-> FALSE]
    ELSE IF providerName \in cached
    THEN [err |-> FALSE, failedProviders |-> failed, priceProviders |-> cached,
          newCalled |-> FALSE]
    ELSE IF newOk
    THEN [err |-> FALSE, failedProviders |-> failed,
          priceProviders |-> cached \cup {providerName}, newCalled |-> TRUE]
    ELSE [err |-> TRUE, failedProviders |-> failed \cup {providerName},
          priceProviders |-> cached, newCalled |-> TRUE]

\* the requiredRates loop: the bases of the pairs of every provider whose
\* adapter was obtained, when the base's chain denom is whitelisted
RequiredRates(usable, whitelist) ==
    UNION {{providerPairs[p][i].Base :
               i \in {j \in DOMAIN providerPairs[p] :
                         WhitelistContains(whitelist,
                             chainDenomMapping[providerPairs[p][j].Base])}} :
           p \in usable}

\* SetProviderTickerPricesAndCandles for one pair, on one provider's maps
SetProviderTickerPricesAndCandles(acc, prices, candles, pair) ==
    LET key == PairString(pair)
        pricesOk == key \in DOMAIN prices
        candlesOk == key \in DOMAIN candles
    IN  [prices |-> IF pricesOk
                    THEN [b \in DOMAIN acc.prices \cup {pair.Base} |->
                            IF b = pair.Base THEN prices[key] ELSE acc.prices[b]]
                    ELSE acc.prices,
         candles |-> IF candlesOk
                     THEN [b \in DOMAIN acc.candles \cup {pair.Base} |->
                             IF b = pair.Base THEN candles[key] ELSE acc.candles[b]]
                     ELSE acc.candles,
         success |-> pricesOk \/ candlesOk]

\* the merge loop of one provider task: pairs in configured order, left at
\* the first pair that has neither a ticker nor a candle
RECURSIVE MergeLoop(_, _, _, _, _)
MergeLoop(acc, pairs, i, prices, candles) ==
    IF i > Len(pairs) THEN acc
    ELSE LET r == SetProviderTickerPricesAndCandles(acc, prices, candles, pairs[i])
         IN  IF ~r.success THEN r
             ELSE MergeLoop(r, pairs, i + 1, prices, candles)

MergeProvider(providerName, fetched) ==
    MergeLoop([prices |-> EmptyMap, candles |-> EmptyMap, success |-> TRUE],
              providerPairs[providerName], 1, fetched.prices, fetched.candles)

\* every task merges what its fetch holds, however late it came
MergeLateProviders(usable, fetch) == usable

\* the providers whose task merges: the fetch finished before providerTimeout
MergedProviders(usable, fetch) == {p \in usable : ~fetch[p].timedOut}

\* a task that returns the error of its adapter calls to the errgroup
TaskErrorPropagates(outcome) == outcome.tickerErr \/ outcome.candleErr

\* what a provider task adds to the error SetPrices returns: nothing.  A
\* failed GetTickerPrices or GetCandlePrices is logged, the task returns nil
\* on every path and the error of group.Wait is logged only.
TaskError(outcome) == FALSE

\* no check of the required bases
NoMissingRates(requiredRates, computedPrices) == {}

\* the required bases that the computed prices lack
MissingRates(requiredRates, computedPrices) ==
    {base \in requiredRates : base \notin DOMAIN computedPrices}

\* the getOrSetProvider calls of the provider loop: np[p] tells whether
\* NewProvider(p) succeeds when it is called
ProviderLoop(failed, cached, np) ==
    LET get == [p \in DOMAIN providerPairs |->
                   getOrSetProvider(failed, cached, p, p \in DOMAIN np /\ np[p])]
    IN  [failedProviders |-> UNION {get[p].failedProviders : p \in DOMAIN get},
         priceProviders |-> UNION {get[p].priceProviders : p \in DOMAIN get},
         newCalled |-> {p \in DOMAIN get : get[p].newCalled},
         usable |-> {p \in DOMAIN get : ~get[p].err}]

\* SetPrices.  failed/cached: o.failedProviders / o.priceProviders; whitelist:
\* o.paramCache.params.Whitelist; np: the NewProvider results; fetch[p]: what
\* the fetch task of provider p does in this tick.
SetPrices(failed, cached, whitelist, np, fetch, now_) ==
    LET loop == ProviderLoop(failed, cached, np)
        requiredRates == RequiredRates(loop.usable, whitelist)
        merging == MergedProviders(loop.usable, fetch)
        merged == [p \in merging |-> MergeProvider(p, fetch[p])]
        providerPrices == [p \in merging |-> merged[p].prices]
        providerCandles == [p \in merging |-> merged[p].candles]
        computedPrices ==
            GetComputedPrices(providerCandles, providerPrices, requiredRates, now_)
        missing == MissingRates(requiredRates, computedPrices)
    IN  [err |-> (\E p \in loop.usable : TaskError(fetch[p])) \/ missing # {},
         prices |-> computedPrices,
         failedProviders |-> loop.failedProviders,
         priceProviders |-> loop.priceProviders,
         newCalled |-> loop.newCalled,
         usable |-> loop.usable,
         requiredRates |-> requiredRates,
         providerPrices |-> providerPrices,
         providerCandles |-> providerCandles]

(***************************************************************************)
(* What the environment can do in a tick.                                   *)
(***************************************************************************)
\* the ticker a provider reports for a pair
TickerOf(p) ==
    IF p = "binance" THEN [Price |-> Dec(1), Volume |-> Dec(1)]
    ELSE [Price |-> Dec(3), Volume |-> Dec(1)]

\* the candle lists a provider can report for a pair: a candle one minute
\* old and, from binance, also one that has left the TVWAP window
CandleLists(p, now_) ==
    { <<[Price |-> Dec(2), Volume |-> Dec(1), TimeStamp |-> now_ - 1]>> }
    \cup
    (IF p = "binance"
     THEN { <<[Price |-> Dec(2), Volume |-> Dec(1),
              TimeStamp |-> now_ - (TvwapCandlePeriod + 1)]>> }
     ELSE {})

PairStrings(p) == {PairString(providerPairs[p][i]) : i \in DOMAIN providerPairs[p]}

\* GetTickerPrices: an error (and no map), or a map over some of the pairs
\* asked for, at least one
TickerResults(keys, vals) ==
    {[err |-> TRUE, map |-> EmptyMap]}
    \cup {[err |-> FALSE, map |-> m] : m \in PartialMaps(keys, vals) \ {EmptyMap}}

\* GetCandlePrices: an error (and no map), or a map over all the pairs asked
\* for
CandleResults(keys, vals) ==
    {[err |-> TRUE, map |-> EmptyMap]}
    \cup {[err |-> FALSE, map |-> m] : m \in [keys -> vals]}

\* a fetch either runs past providerTimeout (and then never returns, or
\* returns its tickers too late) or finishes with the results of
\* GetTickerPrices and GetCandlePrices
FetchOutcomes(p, now_) ==
    {[timedOut |-> TRUE, tickerErr |-> FALSE, candleErr |-> FALSE,
      prices |-> pm, candles |-> EmptyMap] :
        pm \in {EmptyMap, [k \in PairStrings(p) |-> TickerOf(p)]}}
    \cup
    {[timedOut |-> FALSE, tickerErr |-> t.err, candleErr |-> c.err,
      prices |-> t.map, candles |-> c.map] :
        t \in TickerResults(PairStrings(p), {TickerOf(p)}),
        c \in CandleResults(PairStrings(p), CandleLists(p, now_))}

\* the fetches of a set of providers
FetchChoices(ps, now_) ==
    {f \in [ps -> UNION {FetchOutcomes(p, now_) : p \in ps}] :
        \A p \in ps : f[p] \in FetchOutcomes(p, now_)}

\* what the chain can answer to the oracle-params query
VotePeriods == {2}

Whitelists == {<<"uatom", "ukii">>, <<"uatom">>}

ParamsChoices == [VotePeriod : VotePeriods, Whitelist : Whitelists]

\* the outcome of one healthcheck GET: a response, an error without a
\* response, or an error that still carries a (closed) response
PingOutcomes == {"ok", "err_nil", "err_resp"}

\* the orders in which the range over o.healthchecks can visit the URLs
HealthcheckOrders ==
    {order \in [1..Cardinality(Healthchecks) -> Healthchecks] :
        Range(order) = Healthchecks}

\* healthchecksPing from the i-th URL of the order on.  The GET error is
\* logged; response.Body.Close() is called whatever the GET returned, and
\* panics on the nil response of a GET that returned only an error.
RECURSIVE PingFrom(_, _, _, _)
PingFrom(order, ping, i, acc) ==
    IF i > Len(order) THEN acc
    ELSE LET url == order[i]
             got == [pinged |-> acc.pinged \cup {url},
                     failed |-> acc.failed \/ ping[url] # "ok",
                     panicked |-> ping[url] = "err_nil"]
         IN  IF got.panicked THEN got ELSE PingFrom(order, ping, i + 1, got)

NoPing == [pinged |-> {}, failed |-> FALSE, panicked |-> FALSE]

healthchecksPing(order, ping) == PingFrom(order, ping, 1, NoPing)

(***************************************************************************)
(* Param and jail caches.                                                   *)
(***************************************************************************)
\* refresh intervals in blocks
JailCacheInterval == 50

ParamCacheInterval == 200

\* the first height received: 0, which the tick rejects, or the first block
FirstHeights == {0, 1}

\* how far a later block-height event is from the previous one: the same
\* height again, the next block, a gap that outlasts the jail cache, or a
\* gap that outlasts the param cache as well
HeightSteps == {0, 1, JailCacheInterval, ParamCacheInterval}

\* a cache that is never refreshed once it holds data
CacheNeverExpires(cache, interval, height) == cache.set

\* a cache is used while it holds data younger than its interval
CacheFresh(cache, interval, height) ==
    cache.set /\ height - cache.lastUpdatedBlock < interval

(***************************************************************************)
(* State.                                                                   *)
(***************************************************************************)
VARIABLES
    pc,                  \* where the Start loop (and the tick it runs) stands
    ctxDone,             \* the context passed to Start is cancelled
    closerClosed,        \* o.closer has been closed
    validatorAddrParses, \* sdk.ValAddressFromBech32 accepts the configured
                         \* o.oracleClient.ValidatorAddrString
    currBlockHeight,     \* Start: the height received for the running tick
    previousBlockHeight, \* Start: the height of the previous tick
    now,                 \* wall clock
    numTicks,            \* block-height events consumed so far
    previousVotePeriod,  \* o.previousVotePeriod
    priceProviders,      \* o.priceProviders (names with a cached adapter)
    failedProviders,     \* o.failedProviders (names)
    prices,              \* o.prices
    lastPriceSyncTS,     \* o.lastPriceSyncTS
    paramCache,          \* o.paramCache
    jailCache,           \* o.jailCache
    oracleParams,        \* tick: the params used by the running tick
    currentVotePeriod,   \* tick: the vote period of the running tick
    voteMsg,             \* tick: the vote message handed to BroadcastTx
    tickErr,             \* what the tick returned: "none" while running
    telemetry,           \* the tick counters
    newProviderCalls,    \* history: NewProvider calls per provider name
    broadcastLog,        \* history: the BroadcastTx calls made so far
    hist,                \* history of the running tick
    stopCalled,          \* Stop has been called
    goTick,              \* goroutine view: where the tick goroutine stands
    goTask,              \* goroutine view: where each provider task stands
    chClosed,            \* goroutine view: the fetch goroutine closed ch
    timerFired,          \* goroutine view: time.After(providerTimeout) fired
    goReader,            \* goroutine view: where each accessor call stands
    mtxReaders,          \* o.mtx: the accessor calls that hold the read lock
    mtxWriter,           \* o.mtx: the write side is held
    pricesVersion,       \* goroutine view: which SetPrices wrote o.prices
    syncTS,              \* goroutine view: the words of o.lastPriceSyncTS
    readerResult,        \* goroutine view: what each accessor call returned
    goTicks,             \* goroutine view: ticks started
    coinsA,              \* vote string: a coin collection
    coinsB,              \* vote string: the same coins in another order
    ratesA,              \* vote string: GenerateExchangeRatesString(coinsA)
    ratesB,              \* vote string: GenerateExchangeRatesString(coinsB)
    ratesAgain,          \* vote string: a second call on coinsA
    aggPrices,           \* aggregator: an AggregatedProviderPrices argument
    aggCandles,          \* aggregator: an AggregatedProviderCandles argument
    aggRequired,         \* aggregator: a requiredRates argument
    aggOut,              \* aggregator: what the function called returned
    timeoutCall          \* GetProviderTimeout: its arguments and what it returned

oracleVars == <<previousVotePeriod, priceProviders, failedProviders, prices,
                lastPriceSyncTS, paramCache, jailCache>>

tickVars == <<oracleParams, currentVotePeriod, voteMsg, tickErr>>

loopVars == <<pc, currBlockHeight, previousBlockHeight, now, numTicks, telemetry>>

vars == <<pc, ctxDone, closerClosed, validatorAddrParses, currBlockHeight, previousBlockHeight, now,
          numTicks, previousVotePeriod, priceProviders, failedProviders, prices,
          lastPriceSyncTS, paramCache, jailCache, oracleParams,
          currentVotePeriod, voteMsg, tickErr, telemetry, newProviderCalls,
          broadcastLog, hist, stopCalled, goTick, goTask, chClosed, timerFired,
          goReader, mtxReaders, mtxWriter, pricesVersion, syncTS, readerResult,
          goTicks, coinsA, coinsB, ratesA, ratesB, ratesAgain,
          aggPrices, aggCandles, aggRequired, aggOut, timeoutCall>>

\* the state of the goroutine view
goVars == <<goTick, goTask, chClosed, timerFired, goReader, mtxReaders,
            mtxWriter, pricesVersion, syncTS, readerResult, goTicks>>

\* the state of the vote-string view
ratesVars == <<coinsA, coinsB, ratesA, ratesB, ratesAgain>>

\* the state of the aggregator view
aggVars == <<aggPrices, aggCandles, aggRequired, aggOut>>

\* what the steps of Start and tick leave alone
fixedVars == <<validatorAddrParses, stopCalled, goVars, ratesVars, aggVars,
               timeoutCall>>

NoParams == [VotePeriod |-> 0, Whitelist |-> <<>>]

NoVote == [ExchangeRates |-> "", Coins |-> <<>>]

\* hist.setPrices: nothing before SetPrices ran; its inputs and result in the
\* state that follows it; a mark that it ran after that
NoSetPrices == [called |-> FALSE, detail |-> FALSE]

SetPricesRan == [called |-> TRUE, detail |-> FALSE]

\* the history of a tick that has just received its height
FreshHist ==
    [previousVotePeriod |-> previousVotePeriod,
     prices |-> prices,
     lastPriceSyncTS |-> lastPriceSyncTS,
     failedProviders |-> failedProviders,
     priceProviders |-> priceProviders,
     jailState |-> "unknown",
     jailQueried |-> FALSE,
     paramsQueried |-> FALSE,
     setPrices |-> NoSetPrices,
     broadcasts |-> 0,
     broadcastOk |-> FALSE,
     ping |-> NoPing]

NoHist ==
    [previousVotePeriod |-> 0, prices |-> EmptyMap, lastPriceSyncTS |-> 0,
     failedProviders |-> {}, priceProviders |-> {}, jailState |-> "unknown",
     jailQueried |-> FALSE, paramsQueried |-> FALSE, setPrices |-> NoSetPrices,
     broadcasts |-> 0, broadcastOk |-> FALSE, ping |-> NoPing]

\* New: the Oracle as constructed, and Start before its first iteration
OracleInit ==
    /\ pc = "select"
    /\ ctxDone = FALSE
    /\ closerClosed = FALSE
    /\ validatorAddrParses \in BOOLEAN
    /\ currBlockHeight = 0
    /\ previousBlockHeight = 0
    /\ now = 2 * TvwapCandlePeriod
    /\ numTicks = 0
    /\ previousVotePeriod = 0
    /\ priceProviders = {}
    /\ failedProviders = {}
    /\ prices = EmptyMap
    /\ lastPriceSyncTS = 0
    /\ paramCache = [set |-> FALSE, params |-> NoParams, lastUpdatedBlock |-> 0]
    /\ jailCache = [set |-> FALSE, isJailed |-> FALSE, lastUpdatedBlock |-> 0]
    /\ oracleParams = NoParams
    /\ currentVotePeriod = 0
    /\ voteMsg = NoVote
    /\ tickErr = "none"
    /\ telemetry = [failureTick |-> 0, successTick |-> 0, skippedBlocks |-> 0]
    /\ newProviderCalls = [p \in ProviderNames |-> 0]
    /\ broadcastLog = <<>>
    /\ hist = NoHist
    /\ stopCalled = FALSE

\* the accessor calls that run beside the tick
Readers == {"r1", "r2"}

\* an accessor call that has not returned
NoResult == [of |-> "none", wall |-> 0, ext |-> 0]

\* the goroutine view before the first tick: no task, no accessor call
GoInit ==
    /\ goTick = "idle"
    /\ goTask = [p \in ProviderNames |-> "none"]
    /\ chClosed = [p \in ProviderNames |-> FALSE]
    /\ timerFired = [p \in ProviderNames |-> FALSE]
    /\ goReader = [r \in Readers |-> "idle"]
    /\ mtxReaders = {}
    /\ mtxWriter = FALSE
    /\ pricesVersion = 0
    /\ syncTS = [wall |-> 0, ext |-> 0]
    /\ readerResult = [r \in Readers |-> NoResult]
    /\ goTicks = 0

\* the vote-string view with no input
RatesAtRest ==
    /\ coinsA = <<>>
    /\ coinsB = <<>>
    /\ ratesA = "none"
    /\ ratesB = "none"
    /\ ratesAgain = "none"

\* the aggregator view with no call made
NoOutput == [of |-> "none"]

AggAtRest ==
    /\ aggPrices = EmptyMap
    /\ aggCandles = EmptyMap
    /\ aggRequired = {}
    /\ aggOut = NoOutput

\* GetProviderTimeout not called
NoTimeoutCall == [of |-> "none"]

Init == OracleInit /\ GoInit /\ RatesAtRest /\ AggAtRest /\ timeoutCall = NoTimeoutCall

(***************************************************************************)
(* Oracle.Start and Oracle.tick.                                            *)
(***************************************************************************)
\* the period computed from the height itself, without the + 1
VotePeriodOfHeight(blockHeight, votePeriod) == blockHeight \div votePeriod

\* math.Floor(float64(blockHeight+1) / float64(VotePeriod))
CurrentVotePeriod(blockHeight, votePeriod) == (blockHeight + 1) \div votePeriod

\* a gate that lets every tick vote
GateNeverSkips(current, previous) == FALSE

\* the voting-window gate: the tick skips the vote in the period it voted in
GateSkips(current, previous) == current = previous

\* previousVotePeriod assigned before the error of BroadcastTx is looked at
VotePeriodAlwaysAdvances(ok, previous, current) == current

\* previousVotePeriod never assigned
VotePeriodNeverAdvances(ok, previous, current) == previous

\* o.previousVotePeriod after BroadcastTx returned
VotePeriodAfterBroadcast(ok, previous, current) ==
    IF ok THEN current ELSE previous

\* the vote of a tick: the stored prices as coins, filtered by the whitelist,
\* in canonical string form
BuildVote(stored, whitelist) ==
    LET filteredPrices == filterPricesByDenomList(GetPrices(stored), whitelist)
    IN  [ExchangeRates |-> GenerateExchangeRatesString(filteredPrices),
         Coins |-> filteredPrices]

\* the tick returns err to Start
TickReturns(err) == tickErr' = err /\ pc' = "telemetry"

\* Start: one evaluation of the select statement
StartSelect ==
    /\ pc = "select"
    /\ UNCHANGED fixedVars
    /\ IF ctxDone
       THEN closerClosed' = TRUE /\ pc' = "select"
       ELSE closerClosed' = closerClosed /\ pc' = "recv"
    /\ UNCHANGED <<ctxDone, currBlockHeight, previousBlockHeight, now, numTicks,
                   telemetry, newProviderCalls, broadcastLog, hist>>
    /\ UNCHANGED oracleVars
    /\ UNCHANGED tickVars

\* a loop that would take the next block height while the tick of the
\* previous one is still at its health pings
ReceivesDuringTick == pc \in {"recv", "health"}

\* Start blocks on BlockHeightEvents only in the default branch of its select,
\* which it reaches after the previous iteration ran to its end
ReceivesAtLoopHead == pc = "recv"

\* Start: a block height arrives on BlockHeightEvents and the tick is called
RecvBlockHeight ==
    /\ ReceivesAtLoopHead
    /\ UNCHANGED fixedVars
    /\ numTicks < MaxTicks
    /\ \E d \in (IF numTicks = 0 THEN FirstHeights ELSE HeightSteps) :
          currBlockHeight' = previousBlockHeight + d
    /\ numTicks' = numTicks + 1
    /\ now' = now + 1
    /\ pc' = "tick"
    /\ hist' = FreshHist
    /\ UNCHANGED <<ctxDone, closerClosed, previousBlockHeight, telemetry,
                   newProviderCalls, broadcastLog>>
    /\ UNCHANGED oracleVars
    /\ UNCHANGED tickVars

\* a tick that notes the error of a lookup and goes on to the price collection
QueryErrorIgnored(err) == tickErr' = err /\ pc' = "setprices"

\* tick: if err != nil { return err } after GetCachedJailedState and after
\* GetParamCache
QueryErrorReturns(err) == TickReturns(err)

\* a tick that goes on whatever the jail state
JailIgnored(isJailed) == tickErr' = tickErr /\ pc' = "params"

\* tick after the jail state is known
JailDecided(isJailed) ==
    IF isJailed THEN TickReturns("jailed")
    ELSE tickErr' = tickErr /\ pc' = "params"

\* tick: height validation and GetCachedJailedState
TickJail ==
    /\ pc = "tick"
    /\ UNCHANGED fixedVars
    /\ IF currBlockHeight < 1
       THEN TickReturns("height") /\ UNCHANGED <<jailCache, hist>>
       ELSE IF CacheFresh(jailCache, JailCacheInterval, currBlockHeight)
       THEN /\ JailDecided(jailCache.isJailed)
            /\ hist' = [hist EXCEPT !.jailState =
                            IF jailCache.isJailed THEN "jailed" ELSE "free"]
            /\ UNCHANGED jailCache
       ELSE \E answer \in {"err", "jailed", "free"} :
               /\ hist' = [hist EXCEPT !.jailQueried = TRUE,
                                        !.jailState = IF answer = "err" THEN "unknown"
                                                      ELSE answer]
               /\ IF answer = "err"
                  THEN QueryErrorReturns("jail_query") /\ UNCHANGED jailCache
                  ELSE /\ jailCache' = [set |-> TRUE,
                                        isJailed |-> (answer = "jailed"),
                                        lastUpdatedBlock |-> currBlockHeight]
                       /\ JailDecided(answer = "jailed")
    /\ UNCHANGED <<ctxDone, closerClosed, currBlockHeight, previousBlockHeight,
                   now, numTicks, telemetry, newProviderCalls, broadcastLog>>
    /\ UNCHANGED <<previousVotePeriod, priceProviders, failedProviders, prices,
                   lastPriceSyncTS, paramCache>>
    /\ UNCHANGED <<oracleParams, currentVotePeriod, voteMsg>>

\* tick: GetParamCache
TickParams ==
    /\ pc = "params"
    /\ UNCHANGED fixedVars
    /\ IF CacheFresh(paramCache, ParamCacheInterval, currBlockHeight)
       THEN /\ oracleParams' = paramCache.params
            /\ pc' = "setprices"
            /\ UNCHANGED <<paramCache, hist, tickErr>>
       ELSE /\ hist' = [hist EXCEPT !.paramsQueried = TRUE]
            /\ \/ /\ QueryErrorReturns("param_query")
                  /\ UNCHANGED <<paramCache, oracleParams>>
               \/ \E params \in ParamsChoices :
                     /\ paramCache' = [set |-> TRUE, params |-> params,
                                       lastUpdatedBlock |-> currBlockHeight]
                     /\ oracleParams' = params
                     /\ pc' = "setprices"
                     /\ UNCHANGED tickErr
    /\ UNCHANGED <<ctxDone, closerClosed, currBlockHeight, previousBlockHeight,
                   now, numTicks, telemetry, newProviderCalls, broadcastLog>>
    /\ UNCHANGED <<previousVotePeriod, priceProviders, failedProviders, prices,
                   lastPriceSyncTS, jailCache>>
    /\ UNCHANGED <<currentVotePeriod, voteMsg>>

\* a SetPrices that leaves o.prices as it was
KeepsStoredPrices(stored, computedPrices) == stored

\* SetPrices, last statement: o.prices = computedPrices
InstalledPrices(stored, computedPrices) == computedPrices

\* tick: SetPrices, the last-sync timestamp, the voting-window gate, the
\* validator address and the vote message
TickSetPrices ==
    /\ pc = "setprices"
    /\ UNCHANGED fixedVars
    /\ \E np \in [ProviderNames \ (failedProviders \cup priceProviders) -> BOOLEAN] :
       \E fetch \in FetchChoices(
                       ProviderLoop(failedProviders, priceProviders, np).usable, now) :
          hist' = [hist EXCEPT !.setPrices =
                      [called |-> TRUE, detail |-> TRUE, np |-> np, fetch |-> fetch,
                       result |-> SetPrices(failedProviders, priceProviders,
                                            paramCache.params.Whitelist, np, fetch,
                                            now)]]
    /\ LET r == hist'.setPrices.result
           cvp == CurrentVotePeriod(currBlockHeight, oracleParams.VotePeriod)
       IN  /\ failedProviders' = r.failedProviders
           /\ priceProviders' = r.priceProviders
           /\ newProviderCalls' =
                 [p \in ProviderNames |->
                     newProviderCalls[p] + (IF p \in r.newCalled THEN 1 ELSE 0)]
           /\ IF r.err
              THEN /\ TickReturns("set_prices")
                   /\ UNCHANGED <<prices, lastPriceSyncTS, currentVotePeriod,
                                  voteMsg>>
              ELSE /\ prices' = InstalledPrices(prices, r.prices)
                   /\ lastPriceSyncTS' = now
                   /\ currentVotePeriod' = cvp
                   /\ IF GateSkips(cvp, previousVotePeriod)
                      THEN TickReturns("nil") /\ UNCHANGED voteMsg
                      ELSE IF ~validatorAddrParses
                      THEN TickReturns("val_addr") /\ UNCHANGED voteMsg
                      ELSE /\ voteMsg' = BuildVote(prices', oracleParams.Whitelist)
                           /\ pc' = "broadcast"
                           /\ UNCHANGED tickErr
    /\ UNCHANGED <<ctxDone, closerClosed, currBlockHeight, previousBlockHeight,
                   now, numTicks, telemetry, broadcastLog>>
    /\ UNCHANGED <<previousVotePeriod, paramCache, jailCache, oracleParams>>

\* tick: BroadcastTx and, on success, the update of previousVotePeriod
TickBroadcast ==
    /\ pc = "broadcast"
    /\ UNCHANGED fixedVars
    /\ \E ok \in BOOLEAN :
          /\ hist' = [hist EXCEPT !.broadcasts = @ + 1, !.broadcastOk = ok,
                                   !.setPrices = SetPricesRan]
          /\ broadcastLog' = Append(broadcastLog,
                                    [tick |-> numTicks, height |-> currBlockHeight,
                                     votePeriod |-> oracleParams.VotePeriod,
                                     period |-> currentVotePeriod, ok |-> ok])
          /\ previousVotePeriod' =
                VotePeriodAfterBroadcast(ok, previousVotePeriod, currentVotePeriod)
          /\ IF ok
             THEN pc' = "health" /\ UNCHANGED tickErr
             ELSE TickReturns("broadcast")
    /\ UNCHANGED <<ctxDone, closerClosed, currBlockHeight, previousBlockHeight,
                   now, numTicks, telemetry, newProviderCalls>>
    /\ UNCHANGED <<priceProviders, failedProviders, prices, lastPriceSyncTS,
                   paramCache, jailCache>>
    /\ UNCHANGED <<oracleParams, currentVotePeriod, voteMsg>>

\* tick: healthchecksPing.  A panic of healthchecksPing ends the process.
TickHealth ==
    /\ pc = "health"
    /\ UNCHANGED fixedVars
    /\ \E ping \in [Healthchecks -> PingOutcomes], order \in HealthcheckOrders :
          hist' = [hist EXCEPT !.ping = healthchecksPing(order, ping)]
    /\ IF hist'.ping.panicked
       THEN pc' = "crashed" /\ UNCHANGED tickErr
       ELSE TickReturns("nil")
    /\ UNCHANGED <<ctxDone, closerClosed, currBlockHeight, previousBlockHeight,
                   now, numTicks, telemetry, newProviderCalls, broadcastLog>>
    /\ UNCHANGED oracleVars
    /\ UNCHANGED <<oracleParams, currentVotePeriod, voteMsg>>

\* Start: the counters after the tick returned, and the next iteration
\* a loop that Start would leave when the tick returned an error
LoopEndsOnTickError(err) == IF err = "nil" THEN "select" ELSE "returned"

\* Start after the tick returned: whatever the tick returned, the loop goes
\* back to its select statement
LoopAfterTick(err) == "select"

StartTelemetry ==
    /\ pc = "telemetry"
    /\ UNCHANGED fixedVars
    /\ telemetry' =
          [failureTick |-> telemetry.failureTick + (IF tickErr # "nil" THEN 1 ELSE 0),
           successTick |-> telemetry.successTick + (IF tickErr = "nil" THEN 1 ELSE 0),
           skippedBlocks |->
               telemetry.skippedBlocks +
               (IF currBlockHeight > previousBlockHeight + 1 /\ previousBlockHeight > 0
                THEN currBlockHeight - (previousBlockHeight + 1) ELSE 0)]
    /\ previousBlockHeight' = currBlockHeight
    /\ pc' = LoopAfterTick(tickErr)
    /\ tickErr' = "none"
    /\ oracleParams' = NoParams
    /\ currentVotePeriod' = 0
    /\ voteMsg' = NoVote
    /\ hist' = NoHist
    /\ UNCHANGED <<ctxDone, closerClosed, currBlockHeight, now, numTicks,
                   newProviderCalls, broadcastLog>>
    /\ UNCHANGED oracleVars

\* the context passed to Start is cancelled.  The tick does not read the
\* context, so a cancellation that arrives while a tick runs is the same as
\* one that arrives when Start is back at its select statement.
Cancel ==
    /\ ~ctxDone
    /\ UNCHANGED fixedVars
    /\ pc \in {"select", "recv"}
    /\ ctxDone' = TRUE
    /\ UNCHANGED <<pc, closerClosed, currBlockHeight, previousBlockHeight, now,
                   numTicks, telemetry, newProviderCalls, broadcastLog, hist>>
    /\ UNCHANGED oracleVars
    /\ UNCHANGED tickVars

Next ==
    \/ StartSelect
    \/ RecvBlockHeight
    \/ TickJail
    \/ TickParams
    \/ TickSetPrices
    \/ TickBroadcast
    \/ TickHealth
    \/ StartTelemetry
    \/ Cancel

Spec == Init /\ [][Next]_vars

(***************************************************************************)
(* Oracle.Stop, called from another goroutine while Start runs.             *)
(***************************************************************************)
\* Stop: o.closer.Close(), then the wait for o.closer.Done().  Stop does not
\* cancel the context of Start.
Stop ==
    /\ ~stopCalled
    /\ pc # "crashed"
    /\ stopCalled' = TRUE
    /\ closerClosed' = TRUE
    /\ UNCHANGED <<pc, ctxDone, validatorAddrParses, currBlockHeight,
                   previousBlockHeight, now, numTicks, telemetry,
                   newProviderCalls, broadcastLog, hist, goVars, ratesVars,
                   aggVars, timeoutCall>>
    /\ UNCHANGED oracleVars
    /\ UNCHANGED tickVars

NextStop ==
    \/ Next
    \/ Stop

SpecStop == Init /\ [][NextStop]_vars

(***************************************************************************)
(* GenerateExchangeRatesString on coin collections in every order.          *)
(***************************************************************************)
\* the amounts of the coins: 0.05 and 1.50
RateAmounts == {DecUnit \div 20, DecUnit + DecUnit \div 2}

\* the coin collections: at most one coin per denom, in any order
CoinCollections ==
    UNION {{coins \in [1..n -> [Denom : Range(SortedDenoms), Amount : RateAmounts]] :
               \A i, j \in 1..n : i # j => coins[i].Denom # coins[j].Denom} :
           n \in 0..Len(SortedDenoms)}

\* the collections that hold the same coins as the given one
Reorderings(coins) ==
    {other \in CoinCollections : Len(other) = Len(coins) /\ Range(other) = Range(coins)}

InitRates ==
    /\ OracleInit
    /\ timeoutCall = NoTimeoutCall
    /\ GoInit
    /\ AggAtRest
    /\ coinsA \in CoinCollections
    /\ coinsB \in Reorderings(coinsA)
    /\ ratesA = "none"
    /\ ratesB = "none"
    /\ ratesAgain = "none"

\* what a call of GenerateExchangeRatesString leaves alone
ratesFixed == <<pc, ctxDone, closerClosed, currBlockHeight, previousBlockHeight,
                now, numTicks, telemetry, newProviderCalls, broadcastLog, hist,
                oracleVars, tickVars, validatorAddrParses, stopCalled, goVars,
                aggVars, timeoutCall, coinsA, coinsB>>

GenerateA ==
    /\ ratesA = "none"
    /\ ratesA' = GenerateExchangeRatesString(coinsA)
    /\ UNCHANGED <<ratesB, ratesAgain, ratesFixed>>

GenerateB ==
    /\ ratesB = "none"
    /\ ratesB' = GenerateExchangeRatesString(coinsB)
    /\ UNCHANGED <<ratesA, ratesAgain, ratesFixed>>

\* a second call on the first collection
GenerateAgain ==
    /\ ratesA # "none"
    /\ ratesAgain = "none"
    /\ ratesAgain' = GenerateExchangeRatesString(coinsA)
    /\ UNCHANGED <<ratesA, ratesB, ratesFixed>>

NextRates ==
    \/ GenerateA
    \/ GenerateB
    \/ GenerateAgain

SpecRates == InitRates /\ [][NextRates]_vars

(***************************************************************************)
(* The aggregator functions on ticker prices drawn from a bounded set.      *)
(***************************************************************************)
\* the providers of the aggregates handed to the aggregator functions
AggProviders == {"binance", "kraken", "okx"}

Ticker(price, volume) == [Price |-> price, Volume |-> volume]

\* the tickers a provider can report for ATOM: 10 and 12 with the volumes
\* 100 and 300, 10 without volume, and 10, 10.1 and 50 with the volume 1
AtomTickers ==
    {Ticker(Dec(10), Dec(100)), Ticker(Dec(12), Dec(300)), Ticker(Dec(10), 0),
     Ticker(Dec(10), Dec(1)), Ticker(Dec(10) + DecUnit \div 10, Dec(1)),
     Ticker(Dec(50), Dec(1))}

\* the tickers a provider can report for KII
KiiTickers == {Ticker(Dec(12), Dec(300)), Ticker(Dec(10), 0)}

\* the aggregates: every provider reports ATOM, KII, both or nothing
TickerAggregates ==
    {agg \in [AggProviders -> PartialMaps({"ATOM", "KII"}, AtomTickers \cup KiiTickers)] :
        \A p \in AggProviders :
            /\ "ATOM" \in DOMAIN agg[p] => agg[p]["ATOM"] \in AtomTickers
            /\ "KII" \in DOMAIN agg[p] => agg[p]["KII"] \in KiiTickers}

InitTickers ==
    /\ OracleInit
    /\ timeoutCall = NoTimeoutCall
    /\ validatorAddrParses
    /\ GoInit
    /\ RatesAtRest
    /\ aggPrices \in TickerAggregates
    /\ aggCandles = EmptyMap
    /\ aggRequired = {}
    /\ aggOut = NoOutput

\* what a call of an aggregator function leaves alone
aggFixed == <<pc, ctxDone, closerClosed, currBlockHeight, previousBlockHeight,
              now, numTicks, telemetry, newProviderCalls, broadcastLog, hist,
              oracleVars, tickVars, validatorAddrParses, stopCalled, goVars,
              ratesVars, aggPrices, aggCandles, aggRequired, timeoutCall>>

CallComputeVWAP ==
    /\ aggOut = NoOutput
    /\ aggOut' = [of |-> "ComputeVWAP", result |-> ComputeVWAP(aggPrices)]
    /\ UNCHANGED aggFixed

\* the prices of the tickers: provider -> base -> price
TickerPrices(agg) == [p \in DOMAIN agg |-> [b \in DOMAIN agg[p] |-> agg[p][b].Price]]

CallStandardDeviation ==
    /\ aggOut = NoOutput
    /\ aggOut' = [of |-> "StandardDeviation",
                  result |-> StandardDeviation(TickerPrices(aggPrices))]
    /\ UNCHANGED aggFixed

\* GetComputedPrices on the tickers: the deviation filter, then the VWAP of
\* what it kept
CallFilterTickerDeviations ==
    /\ aggOut = NoOutput
    /\ aggOut' = [of |-> "FilterTickerDeviations",
                  result |-> FilterTickerDeviations(aggPrices),
                  vwapPrices |-> ComputeVWAP(FilterTickerDeviations(aggPrices))]
    /\ UNCHANGED aggFixed

NextTickers ==
    \/ CallComputeVWAP
    \/ CallStandardDeviation
    \/ CallFilterTickerDeviations

SpecTickers == InitTickers /\ [][NextTickers]_vars

(***************************************************************************)
(* ComputeTVWAP and GetComputedPrices on candles and tickers drawn from     *)
(* bounded sets.                                                            *)
(***************************************************************************)
\* the time of the calls
AggNow == 2 * TvwapCandlePeriod

Candle(price, volume, age) ==
    [Price |-> price, Volume |-> volume, TimeStamp |-> AggNow - age]

\* the candle lists a provider can report for ATOM: candles older than the
\* window, at its edge, inside it and at now, in and out of time order, with
\* the prices 10, 12 and 10.10
AtomCandleLists ==
    {<<Candle(Dec(10), Dec(1), TvwapCandlePeriod + 1)>>,
     <<Candle(Dec(10), Dec(1), TvwapCandlePeriod)>>,
     <<Candle(Dec(10), Dec(1), 0)>>,
     <<Candle(Dec(10), 0, 2)>>,
     <<Candle(Dec(10) + 10, Dec(1), 2)>>,
     <<Candle(Dec(10), Dec(1), 4), Candle(Dec(12), Dec(1), 0)>>,
     <<Candle(Dec(12), Dec(1), 0), Candle(Dec(10), Dec(1), 4)>>,
     <<Candle(Dec(10), Dec(1), TvwapCandlePeriod + 1), Candle(Dec(12), Dec(1), 2)>>,
     <<Candle(Dec(10), Dec(1), TvwapCandlePeriod + 1),
       Candle(Dec(12), Dec(1), TvwapCandlePeriod)>>}

KiiCandleLists ==
    {<<Candle(Dec(20), Dec(1), TvwapCandlePeriod + 1)>>,
     <<Candle(Dec(20), Dec(1), 2)>>}

\* the aggregates of the configured providers: each reports a value for some
\* of its pairs
AggregatesOf(atom, kii) ==
    {agg \in [ProviderNames -> PartialMaps(Bases, atom \cup kii)] :
        \A p \in ProviderNames :
            /\ \A b \in DOMAIN agg[p] :
                  \E i \in DOMAIN providerPairs[p] : providerPairs[p][i].Base = b
            /\ "ATOM" \in DOMAIN agg[p] => agg[p]["ATOM"] \in atom
            /\ "KII" \in DOMAIN agg[p] => agg[p]["KII"] \in kii}

InitCandles ==
    /\ OracleInit
    /\ timeoutCall = NoTimeoutCall
    /\ validatorAddrParses
    /\ GoInit
    /\ RatesAtRest
    /\ aggCandles \in AggregatesOf(AtomCandleLists, KiiCandleLists)
    /\ aggPrices \in AggregatesOf({Ticker(Dec(50), Dec(1))}, {Ticker(Dec(30), Dec(1))})
    /\ aggRequired \in SUBSET Bases
    /\ aggOut = NoOutput

\* the time weights ComputeTVWAP gives the candles inside the window
TimeWeights(candles, now_) ==
    UNION {UNION {
        LET cp == SortByTimeStamp(candles[p][b])
            period == Dec(now_ - cp[1].TimeStamp)
        IN  {[timeDiff |-> Dec(now_ - cp[i].TimeStamp), period |-> period,
              weight |-> TimeWeight(cp[i], period, now_)] :
                i \in {j \in DOMAIN cp : InWindow(cp[j], now_)}}
        : b \in DOMAIN candles[p]} : p \in DOMAIN candles}

\* period := math.LegacyNewDec(now - cp[0].TimeStamp) on an entry whose
\* candle list is empty: index out of range, the call panics
IndexOutOfRange(candles) ==
    \E p \in DOMAIN candles : \E b \in DOMAIN candles[p] : candles[p][b] = <<>>

CallComputeTVWAP ==
    /\ aggOut = NoOutput
    /\ aggOut' = IF IndexOutOfRange(aggCandles)
                 THEN [of |-> "ComputeTVWAP", panicked |-> TRUE]
                 ELSE [of |-> "ComputeTVWAP", panicked |-> FALSE,
                       result |-> ComputeTVWAP(aggCandles, AggNow),
                       weights |-> TimeWeights(aggCandles, AggNow)]
    /\ UNCHANGED aggFixed

CallGetComputedPrices ==
    /\ aggOut = NoOutput
    /\ aggOut' = [of |-> "GetComputedPrices",
                  result |-> GetComputedPrices(aggCandles, aggPrices, aggRequired, AggNow)]
    /\ UNCHANGED aggFixed

NextCandles ==
    \/ CallComputeTVWAP
    \/ CallGetComputedPrices

SpecCandles == InitCandles /\ [][NextCandles]_vars

\* ComputeTVWAP on aggregates in which an entry may hold no candle at all
InitEmptyLists ==
    /\ OracleInit
    /\ validatorAddrParses
    /\ timeoutCall = NoTimeoutCall
    /\ GoInit
    /\ RatesAtRest
    /\ aggCandles \in AggregatesOf(AtomCandleLists \cup {<<>>}, KiiCandleLists \cup {<<>>})
    /\ aggPrices = [p \in ProviderNames |-> EmptyMap]
    /\ aggRequired = {}
    /\ aggOut = NoOutput

NextEmptyLists ==
    \/ CallComputeTVWAP

SpecEmptyLists == InitEmptyLists /\ [][NextEmptyLists]_vars

(***************************************************************************)
(* GetPrices on stored prices drawn from a bounded set.                     *)
(***************************************************************************)
\* the prices SetPrices can install for a base
StoredPrices ==
    {1, DecUnit \div 2, Dec(1), Dec(2), Dec(3), Dec(10) + 5, Dec(11) + DecUnit \div 2,
     Dec(50), Dec(20000)}

storedFixed == <<pc, ctxDone, closerClosed, currBlockHeight, previousBlockHeight,
                 now, numTicks, telemetry, newProviderCalls, broadcastLog, hist,
                 previousVotePeriod, priceProviders, failedProviders,
                 lastPriceSyncTS, paramCache, jailCache, tickVars,
                 validatorAddrParses, stopCalled, goVars, ratesVars, aggPrices,
                 aggCandles, aggRequired, timeoutCall>>

\* SetPrices: o.prices = computedPrices
InstallPrices ==
    /\ aggOut = NoOutput
    /\ prices = EmptyMap
    /\ \E computedPrices \in PartialMaps(Bases, StoredPrices) \ {EmptyMap} :
          prices' = computedPrices
    /\ UNCHANGED <<aggOut, storedFixed>>

CallGetPrices ==
    /\ aggOut = NoOutput
    /\ aggOut' = [of |-> "GetPrices", result |-> GetPrices(prices), stored |-> prices]
    /\ UNCHANGED <<prices, storedFixed>>

\* the denom lists handed to filterPricesByDenomList: up to two names, in
\* any order, also the same name twice
DenomLists ==
    UNION {[1..n -> {"uatom", "ukii"}] : n \in 0..2}

\* tick: filterPricesByDenomList(o.GetPrices(), oracleParams.Whitelist)
CallFilterPrices ==
    /\ aggOut = NoOutput
    /\ \E denomList \in DenomLists :
          aggOut' = [of |-> "filterPricesByDenomList",
                     coinPrices |-> GetPrices(prices),
                     denomList |-> denomList,
                     result |-> filterPricesByDenomList(GetPrices(prices), denomList)]
    /\ UNCHANGED <<prices, storedFixed>>

NextStored ==
    \/ InstallPrices
    \/ CallGetPrices
    \/ CallFilterPrices

SpecStored == Init /\ [][NextStored]_vars

(***************************************************************************)
(* config.GetProviderTimeout on configurations drawn from a bounded set.    *)
(***************************************************************************)
Millisecond == 1000 * 1000

\* the units of time.ParseDuration, in nanoseconds
DurationUnits(unit) ==
    IF unit = "ns" THEN 1
    ELSE IF unit = "us" THEN 1000
    ELSE IF unit = "ms" THEN Millisecond
    ELSE IF unit = "s" THEN 1000 * Millisecond
    ELSE IF unit = "m" THEN 60 * 1000 * Millisecond
    ELSE 3600 * 1000 * Millisecond

IsDigit(c) == \E i \in DOMAIN Digits : Digits[i] = c

\* the number of leading digits of s from position i on
RECURSIVE LeadingDigits(_, _)
LeadingDigits(str, i) ==
    IF i <= Len(str) /\ IsDigit(SubSeq(str, i, i))
    THEN 1 + LeadingDigits(str, i + 1) ELSE 0

RECURSIVE ParseNat(_)
ParseNat(str) ==
    IF str = "" THEN 0
    ELSE 10 * ParseNat(SubSeq(str, 1, Len(str) - 1))
         + ((CHOOSE i \in DOMAIN Digits : Digits[i] = SubSeq(str, Len(str), Len(str))) - 1)

\* time.ParseDuration for strings of one unsigned whole number and a unit:
\* "0" is zero; an empty string, a number without unit and an unknown unit
\* are errors
ParseDuration(str) ==
    LET k == LeadingDigits(str, 1)
        unit == SubSeq(str, k + 1, Len(str))
    IN  IF str = "0" THEN [err |-> FALSE, d |-> 0]
        ELSE IF k = 0 \/ unit \notin {"ns", "us", "ms", "s", "m", "h"} THEN [err |-> TRUE, d |-> 0]
        ELSE [err |-> FALSE, d |-> ParseNat(SubSeq(str, 1, k)) * DurationUnits(unit)]

\* a variant that always takes the global timeout
GlobalProviderTimeout(name, config) ==
    LET d == ParseDuration(config.ProviderTimeout)
    IN  IF d.err THEN 100 * Millisecond ELSE d.d

\* GetProviderTimeout: the first endpoint of that name with a non-empty
\* timeout that parses; else the global timeout; else 100ms
GetProviderTimeout(name, config) ==
    LET eps == config.ProviderEndpoints
        hits == {i \in DOMAIN eps :
                    /\ eps[i].Name = name
                    /\ eps[i].Timeout # ""
                    /\ ~ParseDuration(eps[i].Timeout).err}
        d == ParseDuration(config.ProviderTimeout)
    IN  IF hits # {}
        THEN ParseDuration(eps[CHOOSE i \in hits : \A j \in hits : i <= j].Timeout).d
        ELSE IF d.err THEN 100 * Millisecond ELSE d.d

\* the timeout strings of the configurations
TimeoutStrings == {"", "250ms", "100ms", "1s", "abc", "250"}

MaxEndpoints == 2

Configs ==
    [ProviderEndpoints :
        UNION {[1..n -> [Name : {"binance", "kraken"}, Timeout : TimeoutStrings]] :
                  n \in 0..MaxEndpoints},
     ProviderTimeout : TimeoutStrings]

InitTimeout ==
    /\ OracleInit
    /\ validatorAddrParses
    /\ GoInit
    /\ RatesAtRest
    /\ AggAtRest
    /\ timeoutCall \in [of : {"args"}, providerName : {"binance", "kraken"}, cfg : Configs]

CallGetProviderTimeout ==
    /\ timeoutCall.of = "args"
    /\ timeoutCall' = [of |-> "GetProviderTimeout",
                       providerName |-> timeoutCall.providerName,
                       cfg |-> timeoutCall.cfg,
                       result |-> GetProviderTimeout(timeoutCall.providerName,
                                                     timeoutCall.cfg)]
    /\ UNCHANGED <<pc, ctxDone, closerClosed, currBlockHeight, previousBlockHeight,
                   now, numTicks, telemetry, newProviderCalls, broadcastLog, hist,
                   oracleVars, tickVars, validatorAddrParses, stopCalled, goVars,
                   ratesVars, aggVars>>

NextTimeout ==
    \/ CallGetProviderTimeout

SpecTimeout == InitTimeout /\ [][NextTimeout]_vars

(***************************************************************************)
(* The goroutine view: the tick goroutine inside SetPrices and at its       *)
(* writes of o.prices and o.lastPriceSyncTS, the provider tasks of the      *)
(* errgroup, and accessor calls made from other goroutines.                 *)
(***************************************************************************)
\* what the goroutine view leaves alone
goFixed == <<pc, closerClosed, currBlockHeight, previousBlockHeight, now,
             numTicks, telemetry, newProviderCalls, broadcastLog, hist,
             oracleVars, tickVars, validatorAddrParses, stopCalled, ratesVars,
             aggVars, timeoutCall>>

\* SetPrices: every provider task is handed to group.Go; each starts its
\* fetch goroutine with a fresh channel ch and a fresh timer, and SetPrices
\* goes to group.Wait()
GoTickStart ==
    /\ goTick = "idle"
    /\ goTicks < MaxTicks
    /\ goTicks' = goTicks + 1
    /\ goTick' = "wait"
    /\ goTask' = [p \in ProviderNames |-> "select"]
    /\ chClosed' = [p \in ProviderNames |-> FALSE]
    /\ timerFired' = [p \in ProviderNames |-> FALSE]
    /\ UNCHANGED <<goReader, mtxReaders, mtxWriter, pricesVersion, syncTS,
                   readerResult, ctxDone, goFixed>>

\* the fetch goroutine of a task finishes both adapter calls: defer close(ch).
\* The adapter calls take no context.
GoFetchDone(p) ==
    /\ goTask[p] \in {"select", "done"}
    /\ ~chClosed[p]
    /\ chClosed' = [chClosed EXCEPT ![p] = TRUE]
    /\ UNCHANGED <<goTick, goTask, timerFired, goReader, mtxReaders, mtxWriter,
                   pricesVersion, syncTS, readerResult, goTicks, ctxDone, goFixed>>

\* providerTimeout elapses for a task: time.After delivers
GoTimer(p) ==
    /\ goTask[p] = "select"
    /\ ~timerFired[p]
    /\ timerFired' = [timerFired EXCEPT ![p] = TRUE]
    /\ UNCHANGED <<goTick, goTask, chClosed, goReader, mtxReaders, mtxWriter,
                   pricesVersion, syncTS, readerResult, goTicks, ctxDone, goFixed>>

\* the select of a task: case <-ch, or case <-time.After(o.providerTimeout);
\* after either the task runs to its return
GoTaskSelect(p) ==
    /\ goTask[p] = "select"
    /\ chClosed[p] \/ timerFired[p]
    /\ goTask' = [goTask EXCEPT ![p] = "done"]
    /\ UNCHANGED <<goTick, chClosed, timerFired, goReader, mtxReaders, mtxWriter,
                   pricesVersion, syncTS, readerResult, goTicks, ctxDone, goFixed>>

\* group.Wait() returns when every task returned; GetComputedPrices and the
\* required-rates check then fail (SetPrices and the tick return the error)
\* or pass
GoWait ==
    /\ goTick = "wait"
    /\ \A p \in ProviderNames : goTask[p] = "done"
    /\ \E ok \in BOOLEAN : goTick' = IF ok THEN "write_prices" ELSE "idle"
    /\ UNCHANGED <<goTask, chClosed, timerFired, goReader, mtxReaders, mtxWriter,
                   pricesVersion, syncTS, readerResult, goTicks, ctxDone, goFixed>>

\* SetPrices: o.prices = computedPrices.  o.mtx is not taken.
GoWritePrices ==
    /\ goTick = "write_prices"
    /\ pricesVersion' = goTicks
    /\ goTick' = "write_ts_wall"
    /\ UNCHANGED <<goTask, chClosed, timerFired, goReader, mtxReaders, mtxWriter,
                   syncTS, readerResult, goTicks, ctxDone, goFixed>>

\* tick: o.lastPriceSyncTS = time.Now(), a struct of several words stored
\* word by word.  o.mtx is not taken.
GoWriteTSWall ==
    /\ goTick = "write_ts_wall"
    /\ syncTS' = [syncTS EXCEPT !.wall = goTicks]
    /\ goTick' = "write_ts_ext"
    /\ UNCHANGED <<goTask, chClosed, timerFired, goReader, mtxReaders, mtxWriter,
                   pricesVersion, readerResult, goTicks, ctxDone, goFixed>>

\* the remaining words of o.lastPriceSyncTS; the rest of the tick touches
\* neither o.prices nor o.lastPriceSyncTS
GoWriteTSExt ==
    /\ goTick = "write_ts_ext"
    /\ syncTS' = [syncTS EXCEPT !.ext = goTicks]
    /\ goTick' = "idle"
    /\ UNCHANGED <<goTask, chClosed, timerFired, goReader, mtxReaders, mtxWriter,
                   pricesVersion, readerResult, goTicks, ctxDone, goFixed>>

\* an accessor is called from another goroutine: o.mtx.RLock()
GoRLock(r) ==
    /\ goReader[r] = "idle"
    /\ ~mtxWriter
    /\ \E call \in {"GetPrices", "GetLastPriceSyncTimestamp"} :
          goReader' = [goReader EXCEPT ![r] = call]
    /\ mtxReaders' = mtxReaders \cup {r}
    /\ readerResult' = [readerResult EXCEPT ![r] = NoResult]
    /\ UNCHANGED <<goTick, goTask, chClosed, timerFired, mtxWriter,
                   pricesVersion, syncTS, goTicks, ctxDone, goFixed>>

\* GetPrices: the range over o.prices reads the map once, builds the coins
\* and returns; the deferred RUnlock runs
GoGetPrices(r) ==
    /\ goReader[r] = "GetPrices"
    /\ readerResult' = [readerResult EXCEPT
                           ![r] = [of |-> "prices", wall |-> pricesVersion,
                                   ext |-> pricesVersion]]
    /\ goReader' = [goReader EXCEPT ![r] = "idle"]
    /\ mtxReaders' = mtxReaders \ {r}
    /\ UNCHANGED <<goTick, goTask, chClosed, timerFired, mtxWriter,
                   pricesVersion, syncTS, goTicks, ctxDone, goFixed>>

\* GetLastPriceSyncTimestamp: return o.lastPriceSyncTS copies the struct
\* word by word; here its first word
GoReadTSWall(r) ==
    /\ goReader[r] = "GetLastPriceSyncTimestamp"
    /\ readerResult' = [readerResult EXCEPT
                           ![r] = [of |-> "partial", wall |-> syncTS.wall, ext |-> 0]]
    /\ goReader' = [goReader EXCEPT ![r] = "copy_ext"]
    /\ UNCHANGED <<goTick, goTask, chClosed, timerFired, mtxReaders, mtxWriter,
                   pricesVersion, syncTS, goTicks, ctxDone, goFixed>>

\* GetLastPriceSyncTimestamp: the remaining words, the return and the
\* deferred RUnlock
GoReadTSExt(r) ==
    /\ goReader[r] = "copy_ext"
    /\ readerResult' = [readerResult EXCEPT
                           ![r] = [of |-> "ts", wall |-> readerResult[r].wall,
                                   ext |-> syncTS.ext]]
    /\ goReader' = [goReader EXCEPT ![r] = "idle"]
    /\ mtxReaders' = mtxReaders \ {r}
    /\ UNCHANGED <<goTick, goTask, chClosed, timerFired, mtxWriter,
                   pricesVersion, syncTS, goTicks, ctxDone, goFixed>>

\* the root context is cancelled, at any moment
GoCancel ==
    /\ ~ctxDone
    /\ ctxDone' = TRUE
    /\ UNCHANGED <<goVars, goFixed>>

NextGo ==
    \/ GoTickStart
    \/ \E p \in ProviderNames : GoFetchDone(p)
    \/ \E p \in ProviderNames : GoTimer(p)
    \/ \E p \in ProviderNames : GoTaskSelect(p)
    \/ GoWait
    \/ GoWritePrices
    \/ GoWriteTSWall
    \/ GoWriteTSExt
    \/ \E r \in Readers : GoRLock(r)
    \/ \E r \in Readers : GoGetPrices(r)
    \/ \E r \in Readers : GoReadTSWall(r)
    \/ \E r \in Readers : GoReadTSExt(r)
    \/ GoCancel

SpecGo == Init /\ [][NextGo]_vars

(***************************************************************************)
(* The provider tasks of SetPrices step by step: the select, the merge      *)
(* mutex and group.Wait(), under the scheduling of the Go runtime.          *)
(***************************************************************************)
\* case <-time.After(o.providerTimeout): the task returns nil
GoTaskTimeout(p) ==
    /\ goTask[p] = "select"
    /\ timerFired[p]
    /\ goTask' = [goTask EXCEPT ![p] = "done"]
    /\ UNCHANGED <<goTick, chClosed, timerFired, goReader, mtxReaders, mtxWriter,
                   pricesVersion, syncTS, readerResult, goTicks, ctxDone, goFixed>>

\* case <-ch: the task goes on to mtx.Lock()
GoTaskReceive(p) ==
    /\ goTask[p] = "select"
    /\ chClosed[p]
    /\ goTask' = [goTask EXCEPT ![p] = "lock"]
    /\ UNCHANGED <<goTick, chClosed, timerFired, goReader, mtxReaders, mtxWriter,
                   pricesVersion, syncTS, readerResult, goTicks, ctxDone, goFixed>>

\* the merge mutex of this SetPrices call is held by a task
MergeMtxHeld == \E q \in ProviderNames : goTask[q] \in {"merging", "returned_locked"}

\* mtx.Lock() returns
GoTaskLock(p) ==
    /\ goTask[p] = "lock"
    /\ ~MergeMtxHeld
    /\ goTask' = [goTask EXCEPT ![p] = "merging"]
    /\ UNCHANGED <<goTick, chClosed, timerFired, goReader, mtxReaders, mtxWriter,
                   pricesVersion, syncTS, readerResult, goTicks, ctxDone, goFixed>>

\* a task that returns from the merge loop without mtx.Unlock()
TaskLeavesLocked(success) == IF success THEN "done" ELSE "returned_locked"

\* where the task stands after the merge loop: it has called mtx.Unlock()
\* and returned nil, both when every pair had data and when the loop was
\* left at a pair without data
TaskAfterMerge(success) == "done"

\* the merge loop, mtx.Unlock() and the return of the task
GoTaskMerge(p) ==
    /\ goTask[p] = "merging"
    /\ \E success \in BOOLEAN : goTask' = [goTask EXCEPT ![p] = TaskAfterMerge(success)]
    /\ UNCHANGED <<goTick, chClosed, timerFired, goReader, mtxReaders, mtxWriter,
                   pricesVersion, syncTS, readerResult, goTicks, ctxDone, goFixed>>

\* group.Wait() returns when every task returned
GoWaitReturns ==
    /\ goTick = "wait"
    /\ \A p \in ProviderNames : goTask[p] \in {"done", "returned_locked"}
    /\ \E ok \in BOOLEAN : goTick' = IF ok THEN "write_prices" ELSE "idle"
    /\ UNCHANGED <<goTask, chClosed, timerFired, goReader, mtxReaders, mtxWriter,
                   pricesVersion, syncTS, readerResult, goTicks, ctxDone, goFixed>>

NextTasks ==
    \/ GoTickStart
    \/ \E p \in ProviderNames : GoFetchDone(p)
    \/ \E p \in ProviderNames : GoTimer(p)
    \/ \E p \in ProviderNames : GoTaskTimeout(p)
    \/ \E p \in ProviderNames : GoTaskReceive(p)
    \/ \E p \in ProviderNames : GoTaskLock(p)
    \/ \E p \in ProviderNames : GoTaskMerge(p)
    \/ GoWaitReturns
    \/ GoWritePrices
    \/ GoWriteTSWall
    \/ GoWriteTSExt

\* timers fire and the runtime runs every goroutine that can run; a fetch
\* need not ever return
SpecTasks ==
    /\ Init
    /\ [][NextTasks]_vars
    /\ \A p \in ProviderNames :
          /\ WF_vars(GoTimer(p))
          /\ WF_vars(GoTaskTimeout(p) \/ GoTaskReceive(p))
          /\ WF_vars(GoTaskLock(p))
          /\ WF_vars(GoTaskMerge(p))
    /\ WF_vars(GoWaitReturns)

(***************************************************************************)
(* Properties of the vote gate (Oracle.tick).                               *)
(***************************************************************************)
\* C1: in a tick, previousVotePeriod is assigned, to the tick's
\* currentVotePeriod, if and only if BroadcastTx returned without error in
\* that tick; after every other outcome it is what it was when the tick began.
C1_PreviousPeriodAdvancesIffBroadcastOk ==
    pc \notin {"select", "recv"} =>
        /\ hist.broadcastOk <=> previousVotePeriod # hist.previousVotePeriod
        /\ hist.broadcastOk => previousVotePeriod = currentVotePeriod
        /\ ~hist.broadcastOk => previousVotePeriod = hist.previousVotePeriod

\* a tick whose broadcast succeeded has moved previousVotePeriod
C1_Witness ==
    /\ pc = "health"
    /\ hist.broadcastOk
    /\ previousVotePeriod = currentVotePeriod
    /\ previousVotePeriod # hist.previousVotePeriod

\* C2: with non-decreasing heights and a constant VotePeriod, at most one
\* broadcast succeeds per vote period floor((height+1)/VotePeriod): after a
\* successful broadcast in period p no later tick of period p broadcasts.
C2_OneSuccessfulVotePerPeriod ==
    /\ \A i, j \in DOMAIN broadcastLog :
          (i < j /\ broadcastLog[i].ok)
             => (broadcastLog[i].height + 1) \div broadcastLog[i].votePeriod
                   # (broadcastLog[j].height + 1) \div broadcastLog[j].votePeriod
    /\ pc = "broadcast" =>
          \A i \in DOMAIN broadcastLog :
             broadcastLog[i].ok
                => (broadcastLog[i].height + 1) \div broadcastLog[i].votePeriod
                      # (currBlockHeight + 1) \div oracleParams.VotePeriod

\* a tick that collected prices and skipped the vote, in a period that holds
\* a successful broadcast
C2_Witness ==
    /\ pc = "telemetry"
    /\ tickErr = "nil"
    /\ lastPriceSyncTS = now
    /\ hist.broadcasts = 0
    /\ \E i \in DOMAIN broadcastLog :
          /\ broadcastLog[i].ok
          /\ broadcastLog[i].tick < numTicks
          /\ (broadcastLog[i].height + 1) \div broadcastLog[i].votePeriod
                = (currBlockHeight + 1) \div oracleParams.VotePeriod

C4_FailedBroadcastIsRetried ==
    /\ (pc \notin {"select", "recv"} /\ hist.broadcasts = 1 /\ ~hist.broadcastOk)
          => pc = "telemetry" /\ tickErr = "broadcast"
    /\ (/\ pc \in {"broadcast", "health", "telemetry", "crashed"}
        /\ lastPriceSyncTS = now
        /\ \E i \in DOMAIN broadcastLog :
              /\ broadcastLog[i].tick < numTicks
              /\ ~broadcastLog[i].ok
              /\ (broadcastLog[i].height + 1) \div broadcastLog[i].votePeriod
                    = (currBlockHeight + 1) \div oracleParams.VotePeriod
        /\ \A i \in DOMAIN broadcastLog :
              (broadcastLog[i].tick < numTicks /\ broadcastLog[i].ok)
                 => (broadcastLog[i].height + 1) \div broadcastLog[i].votePeriod
                       # (currBlockHeight + 1) \div oracleParams.VotePeriod)
          => (pc = "broadcast" \/ hist.broadcasts = 1)

\* a tick about to broadcast in a period whose earlier broadcast failed
C4_Witness ==
    /\ pc = "broadcast"
    /\ \E i \in DOMAIN broadcastLog :
          /\ ~broadcastLog[i].ok
          /\ broadcastLog[i].period = currentVotePeriod
          /\ (broadcastLog[i].height + 1) \div broadcastLog[i].votePeriod
                = (currBlockHeight + 1) \div oracleParams.VotePeriod

(***************************************************************************)
(* Properties of the jail check (Oracle.tick, Oracle.Start).                *)
(***************************************************************************)
\* C5: when the jail state obtained for the tick is 'jailed', the tick
\* returns an error before collecting prices: no provider is queried, no vote
\* is broadcast, previousVotePeriod, the stored prices and lastPriceSyncTS are
\* what they were when the tick began, and Start counts the tick as a failure.
C5_JailedTickAborts ==
    /\ [](hist.jailState = "jailed" =>
             /\ pc = "telemetry"
             /\ tickErr = "jailed"
             /\ ~hist.setPrices.called
             /\ hist.broadcasts = 0
             /\ previousVotePeriod = hist.previousVotePeriod
             /\ prices = hist.prices
             /\ lastPriceSyncTS = hist.lastPriceSyncTS
             /\ priceProviders = hist.priceProviders
             /\ failedProviders = hist.failedProviders)
    /\ [][hist.jailState = "jailed" =>
             /\ telemetry'.failureTick = telemetry.failureTick + 1
             /\ telemetry'.successTick = telemetry.successTick
             /\ newProviderCalls' = newProviderCalls
             /\ broadcastLog' = broadcastLog
             /\ previousVotePeriod' = previousVotePeriod
             /\ prices' = prices
             /\ lastPriceSyncTS' = lastPriceSyncTS]_vars

\* a jailed tick of an oracle that holds prices from an earlier tick
C5_Witness ==
    /\ hist.jailState = "jailed"
    /\ tickErr = "jailed"
    /\ prices # EmptyMap
    /\ telemetry.successTick > 0

(***************************************************************************)
(* Properties of the price collection (Oracle.SetPrices).                   *)
(***************************************************************************)
\* C6: in every tick requiredRates is the set of all configured bases whose
\* chain denom is whitelisted, whichever providers were initialised or
\* responded; so each such base has a computed price in the tick or the tick
\* fails.
C6_RequiredRatesAreAllWhitelistedBases ==
    hist.setPrices.detail =>
        /\ hist.setPrices.result.requiredRates
              = {b \in Bases : WhitelistContains(paramCache.params.Whitelist,
                                                 chainDenomMapping[b])}
        /\ \A b \in Bases :
              WhitelistContains(paramCache.params.Whitelist, chainDenomMapping[b])
                 => \/ tickErr = "set_prices"
                    \/ b \in DOMAIN prices

\* C7: SetPrices returns an error whenever a base of requiredRates is absent
\* from the computed prices, and then o.prices is what it was before the
\* call; o.prices is replaced only when every required base is present.
C7_MissingRateFailsAndKeepsPrices ==
    hist.setPrices.detail =>
        /\ (\E b \in hist.setPrices.result.requiredRates :
               b \notin DOMAIN hist.setPrices.result.prices)
              => /\ hist.setPrices.result.err
                 /\ tickErr = "set_prices"
                 /\ prices = hist.prices
        /\ prices # hist.prices
              => hist.setPrices.result.requiredRates
                    \subseteq DOMAIN hist.setPrices.result.prices
        /\ ~hist.setPrices.result.err
              => /\ prices = hist.setPrices.result.prices
                 /\ hist.setPrices.result.requiredRates \subseteq DOMAIN prices

\* a failed collection that computed prices other than the stored ones and
\* left the stored ones of an earlier tick in place
C7_Witness ==
    /\ hist.setPrices.detail
    /\ hist.setPrices.result.err
    /\ hist.prices # EmptyMap
    /\ prices = hist.prices
    /\ hist.setPrices.result.prices # hist.prices
    /\ hist.setPrices.result.prices # EmptyMap

\* C8: nothing of a provider whose fetch outlasts providerTimeout is merged
\* into the aggregates of the tick; the providers that finish in time are
\* merged as they are without the slow one; and SetPrices succeeds whenever
\* the merged providers supply every required base.
C8_TimeoutIsolation ==
    hist.setPrices.detail =>
        \A p \in hist.setPrices.result.usable :
           hist.setPrices.fetch[p].timedOut =>
              LET r == hist.setPrices.result
                  fetch == hist.setPrices.fetch
                  others == {q \in r.usable \ {p} : ~fetch[q].timedOut}
                  supplied(q, b) ==
                      \/ /\ b \in DOMAIN r.providerCandles[q]
                         /\ \E i \in DOMAIN r.providerCandles[q][b] :
                               now - TvwapCandlePeriod
                                  < r.providerCandles[q][b][i].TimeStamp
                      \/ b \in DOMAIN r.providerPrices[q]
              IN  /\ p \notin DOMAIN r.providerPrices
                  /\ p \notin DOMAIN r.providerCandles
                  /\ r.providerPrices
                        = [q \in others |-> MergeProvider(q, fetch[q]).prices]
                  /\ r.providerCandles
                        = [q \in others |-> MergeProvider(q, fetch[q]).candles]
                  /\ (\A b \in r.requiredRates : \E q \in others : supplied(q, b))
                        => /\ ~r.err
                           /\ tickErr # "set_prices"
                           /\ r.requiredRates \subseteq DOMAIN prices

\* a collection that succeeds on what binance supplies while the fetch of
\* kraken, which returns its tickers late, has timed out
C8_Witness ==
    /\ hist.setPrices.detail
    /\ hist.setPrices.result.usable = {"binance", "kraken"}
    /\ hist.setPrices.fetch["kraken"].timedOut
    /\ hist.setPrices.fetch["kraken"].prices # EmptyMap
    /\ DOMAIN hist.setPrices.result.providerPrices = {"binance"}
    /\ ~hist.setPrices.result.err
    /\ hist.setPrices.result.requiredRates # {}
    /\ prices = hist.setPrices.result.prices

\* C9: an error of one provider's GetTickerPrices or GetCandlePrices does not
\* by itself fail SetPrices: when the other providers supply every required
\* base, SetPrices returns no error.
C9_ProviderErrorIsIsolated ==
    hist.setPrices.detail =>
        \A p \in hist.setPrices.result.usable :
           (hist.setPrices.fetch[p].tickerErr \/ hist.setPrices.fetch[p].candleErr) =>
              LET r == hist.setPrices.result
                  others == DOMAIN r.providerPrices \ {p}
                  supplied(q, b) ==
                      \/ /\ b \in DOMAIN r.providerCandles[q]
                         /\ \E i \in DOMAIN r.providerCandles[q][b] :
                               now - TvwapCandlePeriod
                                  < r.providerCandles[q][b][i].TimeStamp
                      \/ b \in DOMAIN r.providerPrices[q]
              IN  (\A b \in r.requiredRates : \E q \in others : supplied(q, b))
                     => /\ ~r.err
                        /\ tickErr # "set_prices"
                        /\ lastPriceSyncTS = now

\* a collection that succeeds although both calls of binance returned errors
C9_Witness ==
    /\ hist.setPrices.detail
    /\ hist.setPrices.result.usable = {"binance", "kraken"}
    /\ hist.setPrices.fetch["binance"].tickerErr
    /\ hist.setPrices.fetch["binance"].candleErr
    /\ hist.setPrices.result.requiredRates = {"ATOM", "KII"}
    /\ ~hist.setPrices.result.err
    /\ tickErr # "set_prices"

\* C10: once NewProvider has failed for a name, the name stays in
\* failedProviders, and every later getOrSetProvider refuses it without a new
\* NewProvider call: the provider is left out of every later collection.
C10_StickyProviderFailure ==
    [][\A p \in ProviderNames :
          p \in failedProviders =>
             /\ p \in failedProviders'
             /\ p \notin priceProviders'
             /\ newProviderCalls'[p] = newProviderCalls[p]
             /\ hist'.setPrices.detail
                   => p \notin hist'.setPrices.result.usable]_vars

\* a collection of a later tick that leaves out the provider whose one
\* NewProvider call failed in an earlier tick
C10_Witness ==
    /\ hist.setPrices.detail
    /\ \E p \in hist.failedProviders :
          /\ p \notin hist.setPrices.result.usable
          /\ p \in failedProviders
          /\ newProviderCalls[p] = 1

\* C11: NewProvider is called at most once per provider name in the life of
\* the process: the first collection that uses the name creates the adapter
\* (or records the failure), and every later collection reuses the cached
\* adapter without a new call.
C11_ProviderCreatedAtMostOnce ==
    /\ [](\A p \in ProviderNames :
             /\ newProviderCalls[p] <= 1
             /\ newProviderCalls[p] = 1 <=> p \in priceProviders \cup failedProviders
             /\ ~(p \in priceProviders /\ p \in failedProviders))
    /\ [][\A p \in ProviderNames :
             p \in priceProviders =>
                /\ p \in priceProviders'
                /\ newProviderCalls'[p] = newProviderCalls[p]
                /\ (hist'.setPrices.detail /\ ~hist.setPrices.detail)
                      => p \in hist'.setPrices.result.usable]_vars

\* a collection of a later tick that uses the adapter an earlier tick created
C11_Witness ==
    /\ hist.setPrices.detail
    /\ numTicks = 2
    /\ \E p \in hist.priceProviders :
          /\ p \in hist.setPrices.result.usable
          /\ p \notin hist.setPrices.result.newCalled
          /\ newProviderCalls[p] = 1

(***************************************************************************)
(* Properties of the vote message.                                          *)
(***************************************************************************)
\* C14: the vote message passed to BroadcastTx holds exchange rates only for
\* chain denoms of the whitelist of the params the tick uses: a computed
\* price whose chain denom is not whitelisted is not in the vote.
C14_VoteHoldsOnlyWhitelistedDenoms ==
    pc = "broadcast" =>
        LET str == voteMsg.ExchangeRates
            whitelisted(d) ==
                \E j \in DOMAIN oracleParams.Whitelist : oracleParams.Whitelist[j] = d
            occurs(d) ==
                \E i \in 1..(Len(str) - Len(d) + 1) : SubSeq(str, i, i + Len(d) - 1) = d
        IN  /\ \A i \in DOMAIN voteMsg.Coins : whitelisted(voteMsg.Coins[i].Denom)
            /\ \A i \in DOMAIN SortedDenoms :
                  occurs(SortedDenoms[i]) => whitelisted(SortedDenoms[i])
            /\ \A b \in DOMAIN prices :
                  ~whitelisted(chainDenomMapping[b]) => ~occurs(chainDenomMapping[b])

\* a vote for uatom alone, built while a KII price is stored and ukii is not
\* whitelisted
C14_Witness ==
    /\ pc = "broadcast"
    /\ oracleParams.Whitelist = <<"uatom">>
    /\ DOMAIN prices = {"ATOM", "KII"}
    /\ voteMsg.ExchangeRates = "2.00uatom"

(***************************************************************************)
(* Properties of the health pings.                                          *)
(***************************************************************************)
\* C16: a healthcheck GET that returns an error, after a successful
\* broadcast, neither fails the tick nor stops the loop: the tick returns
\* success with previousVotePeriod advanced, and the other configured URLs
\* are pinged all the same.
C16_FailedPingNeverFailsTheTick ==
    [][(pc = "health" /\ hist'.ping.failed) =>
          /\ pc' = "telemetry"
          /\ tickErr' = "nil"
          /\ hist'.broadcastOk
          /\ previousVotePeriod' = currentVotePeriod'
          /\ hist'.ping.pinged = Healthchecks]_vars

(***************************************************************************)
(* Properties of the tick loop.                                             *)
(***************************************************************************)
\* the positions of Start inside a call of tick
TickRunning == pc \in {"tick", "params", "setprices", "broadcast", "health", "crashed"}

\* C20: ticks are strictly serial and ordered: every block height received
\* from the channel starts exactly one tick, a tick starts only when every
\* earlier tick has returned and been counted, at most one tick is running,
\* and the broadcasts are made in the order the heights were received.
C20_TicksAreSerialAndOrdered ==
    /\ [](numTicks = telemetry.failureTick + telemetry.successTick
                        + (IF TickRunning \/ pc = "telemetry" THEN 1 ELSE 0))
    /\ [](\A i, j \in DOMAIN broadcastLog :
              i < j => /\ broadcastLog[i].tick < broadcastLog[j].tick
                       /\ broadcastLog[i].height <= broadcastLog[j].height)
    /\ [][(pc = "recv" /\ pc' # "recv") =>
              /\ pc' = "tick"
              /\ numTicks' = numTicks + 1
              /\ currBlockHeight' >= previousBlockHeight]_vars
    /\ [][numTicks' # numTicks =>
              /\ pc = "recv"
              /\ ~TickRunning
              /\ numTicks = telemetry.failureTick + telemetry.successTick
              /\ hist = NoHist]_vars

\* the second tick runs to its broadcast after the first tick broadcast and
\* returned
C20_Witness ==
    /\ numTicks = 2
    /\ pc = "health"
    /\ Len(broadcastLog) = 2
    /\ telemetry.failureTick + telemetry.successTick = 1

\* the steps Start can take without a further block-height event
StartStepWithoutEvent ==
    \/ StartSelect
    \/ TickJail
    \/ TickParams
    \/ TickSetPrices
    \/ TickBroadcast
    \/ TickHealth
    \/ StartTelemetry

\* Start has left its loop.  No statement of the loop returns, so no action
\* of the model leads here.
StartReturned == pc = "returned"

\* C17: once the context is cancelled Start returns, also when it waits for
\* a block-height event and none arrives: a cancelled Start that has not
\* returned (and has not panicked) can always go on without a further event,
\* and it has returned once it has taken the branch of the cancelled context.
C17_CancelledStartReturns ==
    (ctxDone /\ pc # "crashed") =>
        /\ StartReturned \/ ENABLED StartStepWithoutEvent
        /\ closerClosed => StartReturned

\* C18: after Stop() is called the loop of Start takes no further
\* block-height event: the tick in flight, if any, finishes and no tick
\* starts after it.
C18_NoTickStartsAfterStop ==
    [][stopCalled => (numTicks' = numTicks /\ ~(pc = "recv" /\ pc' = "tick"))]_vars

(***************************************************************************)
(* Properties of GenerateExchangeRatesString.                               *)
(***************************************************************************)
\* the coins of a collection picked denom by denom in ascending denom order
RECURSIVE CoinsFromDenom(_, _)
CoinsFromDenom(coins, i) ==
    IF i > Len(SortedDenoms) THEN <<>>
    ELSE (IF \E k \in DOMAIN coins : coins[k].Denom = SortedDenoms[i]
          THEN <<coins[CHOOSE k \in DOMAIN coins : coins[k].Denom = SortedDenoms[i]]>>
          ELSE <<>>)
         \o CoinsFromDenom(coins, i + 1)

C12_PricesWrittenUnderWriteLock ==
    ~(/\ goTick = "write_prices"
      /\ \E r \in mtxReaders : goReader[r] = "GetPrices")

\* C13: o.lastPriceSyncTS is the time of the most recent tick whose SetPrices
\* succeeded, and a call of GetLastPriceSyncTimestamp returns a value that
\* such a tick set.
C13_LastSyncIsLatestSuccessfulTick ==
    /\ goTick = "idle" => syncTS = [wall |-> pricesVersion, ext |-> pricesVersion]
    /\ \A r \in Readers :
          readerResult[r].of = "ts" =>
              /\ readerResult[r].wall = readerResult[r].ext
              /\ readerResult[r].wall <= pricesVersion

\* C19: a cancellation of the root context reaches the provider tasks in
\* flight: a task waiting in its select can end at once when the context is
\* cancelled, whether or not its fetch finished or its timeout elapsed.
C19_CancelReachesProviderTasks ==
    \A p \in ProviderNames :
        (ctxDone /\ goTask[p] = "select") => ENABLED GoTaskSelect(p)

\* C21: a tick that returns an error (the error for a block height below 1
\* included) never ends the loop of Start: the error comes back to the loop,
\* is counted as failure/tick, the loop returns to its select statement, and
\* the next block height received starts a new tick.
C21_TickErrorKeepsLoopRunning ==
    /\ [](tickErr \notin {"none", "nil"} => pc = "telemetry")
    /\ [][(pc = "tick" /\ currBlockHeight < 1) =>
              (pc' = "telemetry" /\ tickErr' = "height")]_vars
    /\ [][(pc = "telemetry" /\ tickErr # "nil") =>
              /\ pc' = "select"
              /\ telemetry'.failureTick = telemetry.failureTick + 1
              /\ telemetry'.successTick = telemetry.successTick
              /\ numTicks' = numTicks]_vars
    /\ [][(pc = "select" /\ ~ctxDone) => (pc' = "recv" \/ ctxDone')]_vars
    /\ [][(pc = "recv" /\ pc' # "recv") =>
              (pc' = "tick" /\ numTicks' = numTicks + 1)]_vars

\* a second tick runs after the first one failed on the height 0
C21_Witness ==
    /\ numTicks = 2
    /\ pc = "params"
    /\ previousBlockHeight = 0
    /\ telemetry.failureTick = 1

(***************************************************************************)
(* Properties of the jail cache and the param cache.                        *)
(***************************************************************************)
\* C22: a lookup at height h queries the chain if and only if the cache is
\* empty or h - lastRefreshHeight >= interval (50 for the jail cache, 200
\* for the param cache); a successful query leaves lastRefreshHeight = h;
\* otherwise the cached value is returned and the cache is left as it is.
C22_CacheQueriesExactlyWhenStale ==
    /\ [][(pc = "tick" /\ currBlockHeight >= 1) =>
              LET stale == \/ ~jailCache.set
                           \/ currBlockHeight - jailCache.lastUpdatedBlock >= 50
                  failed == tickErr' = "jail_query"
              IN  /\ hist'.jailQueried <=> stale
                  /\ (stale /\ ~failed) =>
                        /\ jailCache'.set
                        /\ jailCache'.lastUpdatedBlock = currBlockHeight
                        /\ hist'.jailState = IF jailCache'.isJailed THEN "jailed" ELSE "free"
                  /\ (~stale \/ failed) => jailCache' = jailCache
                  /\ ~stale =>
                        hist'.jailState = IF jailCache.isJailed THEN "jailed" ELSE "free"]_vars
    /\ [][pc = "params" =>
              LET stale == \/ ~paramCache.set
                           \/ currBlockHeight - paramCache.lastUpdatedBlock >= 200
                  failed == tickErr' = "param_query"
              IN  /\ hist'.paramsQueried <=> stale
                  /\ (stale /\ ~failed) =>
                        /\ paramCache'.set
                        /\ paramCache'.lastUpdatedBlock = currBlockHeight
                        /\ oracleParams' = paramCache'.params
                  /\ (~stale \/ failed) => paramCache' = paramCache
                  /\ ~stale => oracleParams' = paramCache.params]_vars

\* a tick 50 blocks after the caches were filled: the jail state is queried
\* again, the params come from the cache
C22_Witness ==
    /\ numTicks = 2
    /\ pc = "setprices"
    /\ hist.jailQueried
    /\ jailCache.lastUpdatedBlock = currBlockHeight
    /\ ~hist.paramsQueried
    /\ paramCache.set
    /\ currBlockHeight - paramCache.lastUpdatedBlock = 50

\* C23: when the jail lookup or the param lookup returns an error the tick
\* returns that error before any price collection or broadcast and leaves
\* previousVotePeriod as it was; the cache is left stale, so that the tick of
\* the next block makes the lookup again.
C23_LookupErrorAbortsAndIsRetried ==
    /\ [](tickErr \in {"jail_query", "param_query"} =>
             /\ pc = "telemetry"
             /\ ~hist.setPrices.called
             /\ hist.broadcasts = 0
             /\ previousVotePeriod = hist.previousVotePeriod
             /\ prices = hist.prices
             /\ lastPriceSyncTS = hist.lastPriceSyncTS
             /\ tickErr = "jail_query" =>
                   /\ hist.jailQueried
                   /\ ~jailCache.set \/ currBlockHeight - jailCache.lastUpdatedBlock >= 50
             /\ tickErr = "param_query" =>
                   /\ hist.paramsQueried
                   /\ ~paramCache.set \/ currBlockHeight - paramCache.lastUpdatedBlock >= 200)
    /\ [][(pc = "tick" /\ currBlockHeight >= 1 /\
           (~jailCache.set \/ currBlockHeight - jailCache.lastUpdatedBlock >= 50))
             => hist'.jailQueried]_vars
    /\ [][(pc = "params" /\
           (~paramCache.set \/ currBlockHeight - paramCache.lastUpdatedBlock >= 200))
             => hist'.paramsQueried]_vars

\* the tick of the next block asks for the params again after the first
\* tick failed on the param lookup
C23_Witness ==
    /\ numTicks = 2
    /\ currBlockHeight = 2
    /\ previousBlockHeight = 1
    /\ telemetry.failureTick = 1
    /\ jailCache.set /\ jailCache.lastUpdatedBlock = 1 /\ ~jailCache.isJailed
    /\ ~hist.jailQueried
    /\ hist.paramsQueried
    /\ tickErr = "param_query"

(***************************************************************************)
(* Properties of ComputeVWAP.                                               *)
(***************************************************************************)
\* the providers that report a base in an aggregate
Reporting(agg, base) == {p \in DOMAIN agg : base \in DOMAIN agg[p]}

C25_TimeWeightWithinBounds ==
    aggOut.of = "ComputeTVWAP" =>
        \A w \in aggOut.weights :
            /\ w.weight >= 0
            /\ w.weight >= minimumTimeWeight
            /\ w.weight <= Dec(1)
            /\ w.timeDiff = 0 => w.weight = Dec(1)
            /\ (w.timeDiff = w.period /\ w.period # 0) => w.weight = minimumTimeWeight

\* every candle of every provider is timePeriod old or older
AllCandlesStale(candles, now_) ==
    \A p \in DOMAIN candles : \A b \in DOMAIN candles[p] :
        \A i \in DOMAIN candles[p][b] :
            candles[p][b][i].TimeStamp <= now_ - TvwapCandlePeriod

C27_CompleteTVWAPIsTheResult ==
    (/\ aggOut.of = "GetComputedPrices"
     /\ aggRequired \subseteq DOMAIN ComputeTVWAP(aggCandles, AggNow)) =>
        aggOut.result = ComputeTVWAP(aggCandles, AggNow)

C27_Witness ==
    /\ aggOut.of = "GetComputedPrices"
    /\ aggRequired = {"ATOM"}
    /\ DOMAIN ComputeTVWAP(aggCandles, AggNow) = {"ATOM"}
    /\ DOMAIN ComputeVWAP(aggPrices) = {"ATOM", "KII"}
    /\ aggOut.result = ComputeTVWAP(aggCandles, AggNow)

\* C28: when a required base is missing from the TVWAP result, the returned
\* map holds every TVWAP price unchanged and, for exactly the bases the TVWAP
\* result lacks and the ticker VWAP has, the VWAP price.
C28_VWAPOnlyFillsMissingBases ==
    (/\ aggOut.of = "GetComputedPrices"
     /\ ~ (aggRequired \subseteq DOMAIN ComputeTVWAP(aggCandles, AggNow))) =>
        LET tvwapPrices == ComputeTVWAP(aggCandles, AggNow)
            vwapPrices == ComputeVWAP(aggPrices)
        IN  /\ DOMAIN aggOut.result = DOMAIN tvwapPrices \cup DOMAIN vwapPrices
            /\ \A b \in DOMAIN tvwapPrices : aggOut.result[b] = tvwapPrices[b]
            /\ \A b \in DOMAIN aggOut.result \ DOMAIN tvwapPrices :
                  aggOut.result[b] = vwapPrices[b]

C28_Witness ==
    /\ aggOut.of = "GetComputedPrices"
    /\ aggRequired = {"ATOM", "KII"}
    /\ \A p \in DOMAIN aggCandles : DOMAIN aggCandles[p] \subseteq {"ATOM"}
    /\ \A p \in DOMAIN aggPrices : DOMAIN aggPrices[p] \subseteq {"KII"}
    /\ DOMAIN aggOut.result = {"ATOM", "KII"}
    /\ aggOut.result["ATOM"] = ComputeTVWAP(aggCandles, AggNow)["ATOM"]
    /\ aggOut.result["KII"] = Dec(30)

(***************************************************************************)
(* Properties of StandardDeviation and the deviation filter.                *)
(***************************************************************************)
\* C29: StandardDeviation gives a mean and a deviation for a base exactly
\* when at least 3 providers have a price for it; the deviation filter keeps
\* every observation of a base with fewer than 3 prices.
C29_DeviationNeedsThreePrices ==
    /\ aggOut.of = "StandardDeviation" =>
          \A b \in {"ATOM", "KII"} :
              /\ b \in DOMAIN aggOut.result.deviations
                    <=> Cardinality(Reporting(aggPrices, b)) >= 3
              /\ b \in DOMAIN aggOut.result.means
                    <=> Cardinality(Reporting(aggPrices, b)) >= 3
    /\ aggOut.of = "FilterTickerDeviations" =>
          \A b \in {"ATOM", "KII"} :
              Cardinality(Reporting(aggPrices, b)) < 3 =>
                  \A p \in Reporting(aggPrices, b) :
                      /\ b \in DOMAIN aggOut.result[p]
                      /\ aggOut.result[p][b] = aggPrices[p][b]

C29_Witness ==
    /\ aggOut.of = "StandardDeviation"
    /\ Cardinality(Reporting(aggPrices, "ATOM")) = 3
    /\ Cardinality(Reporting(aggPrices, "KII")) = 2
    /\ DOMAIN aggOut.result.deviations = {"ATOM"}
    /\ DOMAIN aggOut.result.means = {"ATOM"}
    /\ aggOut.result.deviations["ATOM"] > 0

Supplied(fetch, p, i) ==
    \/ PairString(providerPairs[p][i]) \in DOMAIN fetch[p].prices
    \/ PairString(providerPairs[p][i]) \in DOMAIN fetch[p].candles

\* the aggregates of the tick hold an entry of provider p for the base
Merged(r, p, base) ==
    /\ p \in DOMAIN r.providerPrices
    /\ \/ base \in DOMAIN r.providerPrices[p]
       \/ base \in DOMAIN r.providerCandles[p]

\* C31: after the merge of a tick the aggregates hold an entry for provider p
\* and a base exactly when p, within the timeout, supplied a ticker or a
\* candle for its configured pair with that base.
C31_AggregateEntryIffSupplied ==
    hist.setPrices.detail =>
        \A p \in hist.setPrices.result.usable : \A i \in DOMAIN providerPairs[p] :
            Merged(hist.setPrices.result, p, providerPairs[p][i].Base)
                <=> (/\ ~hist.setPrices.fetch[p].timedOut
                     /\ Supplied(hist.setPrices.fetch, p, i))

\* C35: a provider that finished within the timeout and has neither ticker
\* nor candle for one of its pairs still gets its ticker and candle of every
\* other pair into the aggregates, whatever the order of the pairs.
C35_OtherPairsSurviveAnEmptyPair ==
    hist.setPrices.detail =>
        \A p \in hist.setPrices.result.usable :
            \A x, y \in DOMAIN providerPairs[p] :
                (/\ ~hist.setPrices.fetch[p].timedOut
                 /\ ~Supplied(hist.setPrices.fetch, p, y)
                 /\ PairString(providerPairs[p][x]) \in DOMAIN hist.setPrices.fetch[p].prices)
                => /\ p \in DOMAIN hist.setPrices.result.providerPrices
                   /\ providerPairs[p][x].Base
                         \in DOMAIN hist.setPrices.result.providerPrices[p]

ParsableEndpoints(call) ==
    {i \in DOMAIN call.cfg.ProviderEndpoints :
        /\ call.cfg.ProviderEndpoints[i].Name = call.providerName
        /\ call.cfg.ProviderEndpoints[i].Timeout \in {"250ms", "100ms", "1s"}}

\* C33: GetProviderTimeout returns the timeout of the endpoint with the
\* provider's name that has a non-empty timeout that parses (the first one,
\* if there are several); without such an endpoint the global timeout when
\* it parses, and 100ms otherwise.  With endpoint binance at 250ms and the
\* global timeout 100ms, binance gets 250ms and kraken 100ms.
C33_EndpointThenGlobalThenDefault ==
    timeoutCall.of = "GetProviderTimeout" =>
        LET hits == ParsableEndpoints(timeoutCall)
            millis(str) == IF str = "250ms" THEN 250 * Millisecond
                           ELSE IF str = "100ms" THEN 100 * Millisecond
                           ELSE 1000 * Millisecond
            global == timeoutCall.cfg.ProviderTimeout
        IN  /\ hits # {} =>
                \E i \in hits :
                    /\ \A j \in hits : i <= j
                    /\ timeoutCall.result
                          = millis(timeoutCall.cfg.ProviderEndpoints[i].Timeout)
            /\ (hits = {} /\ global \in {"250ms", "100ms", "1s"}) =>
                  timeoutCall.result = millis(global)
            /\ (hits = {} /\ global \notin {"250ms", "100ms", "1s"}) =>
                  timeoutCall.result = 100 * Millisecond
            /\ (/\ timeoutCall.cfg.ProviderEndpoints
                      = <<[Name |-> "binance", Timeout |-> "250ms"]>>
                /\ global = "100ms") =>
                  timeoutCall.result = IF timeoutCall.providerName = "binance"
                                       THEN 250 * Millisecond ELSE 100 * Millisecond

C33_Witness ==
    /\ timeoutCall.of = "GetProviderTimeout"
    /\ timeoutCall.providerName = "binance"
    /\ timeoutCall.cfg = [ProviderEndpoints |-> <<[Name |-> "binance", Timeout |-> "250ms"]>>,
                          ProviderTimeout |-> "100ms"]
    /\ timeoutCall.result = 250 * Millisecond

(***************************************************************************)
(* Properties of the provider tasks of SetPrices.                           *)
(***************************************************************************)
\* C34: SetPrices always gets past group.Wait(), also when a fetch never
\* returns: every task ends on its fetch or on providerTimeout, and the
\* merge mutex is released on every path so that no task waits for it for
\* ever.
C34_SetPricesAlwaysReturns == (goTick = "wait") ~> (goTick # "wait")

C34_Witness ==
    /\ goTick = "write_prices"
    /\ goTask["binance"] = "done"
    /\ ~chClosed["binance"]
    /\ chClosed["kraken"]
    /\ goTask["kraken"] = "done"

\* C36: when a tick starts the fetch goroutines of its provider tasks, the
\* fetch goroutine an earlier tick started on the same provider has ended
\* (its channel is closed), also when that fetch outlasted providerTimeout.
C36_OneFetchPerProvider ==
    [][(goTick = "idle" /\ goTick' = "wait") =>
          \A p \in ProviderNames : goTask[p] = "none" \/ chClosed[p]]_vars

(***************************************************************************)
(* Properties of the vote of a tick.                                        *)
(***************************************************************************)
\* C37: the vote a tick is about to broadcast is built from the computed
\* prices that the SetPrices call of the same tick produced from that tick's
\* fetches and installed without error, never from prices of an earlier tick.
C37_VoteUsesThisTicksPrices ==
    pc = "broadcast" =>
        /\ hist.setPrices.detail
        /\ ~hist.setPrices.result.err
        /\ prices = hist.setPrices.result.prices
        /\ voteMsg = BuildVote(hist.setPrices.result.prices, oracleParams.Whitelist)

C37_Witness ==
    /\ pc = "broadcast"
    /\ numTicks = 2
    /\ hist.prices # EmptyMap
    /\ hist.prices # prices
    /\ voteMsg = BuildVote(hist.setPrices.result.prices, oracleParams.Whitelist)
    /\ voteMsg # BuildVote(hist.prices, oracleParams.Whitelist)

\* C38: filterPricesByDenomList returns every input coin whose denom the
\* denom list names with exactly its input amount, and no other coin, also
\* when the list names a denom more than once.
C38_FilterKeepsAmounts ==
    aggOut.of = "filterPricesByDenomList" =>
        /\ \A i \in DOMAIN aggOut.coinPrices :
              (\E j \in DOMAIN aggOut.denomList :
                    aggOut.denomList[j] = aggOut.coinPrices[i].Denom)
              => \E k \in DOMAIN aggOut.result :
                    aggOut.result[k] = aggOut.coinPrices[i]
        /\ \A k \in DOMAIN aggOut.result :
              \E j \in DOMAIN aggOut.denomList :
                  aggOut.denomList[j] = aggOut.result[k].Denom

\* C39: ComputeTVWAP returns a result and does not panic, whatever its
\* input is, also when an entry of a provider holds an empty candle list.
C39_ComputeTVWAPNeverPanics ==
    aggOut.of = "ComputeTVWAP" => ~aggOut.panicked

\* the prices of the candles of a base inside the window, over all providers
WindowPrices(candles, base, now_) ==
    UNION {{candles[p][base][i].Price :
               i \in {j \in DOMAIN candles[p][base] : InWindow(candles[p][base][j], now_)}} :
           p \in {q \in DOMAIN candles : base \in DOMAIN candles[q]}}

\* C40: for candles with non-negative volumes, the price ComputeTVWAP returns
\* for a base is not below the lowest and not above the highest price of the
\* candles of that base inside the window, over all providers.
C40_TVWAPWithinWindowPrices ==
    (aggOut.of = "ComputeTVWAP" /\ ~aggOut.panicked) =>
        \A b \in DOMAIN aggOut.result :
            /\ \E x \in WindowPrices(aggCandles, b, AggNow) : x <= aggOut.result[b]
            /\ \E x \in WindowPrices(aggCandles, b, AggNow) : aggOut.result[b] <= x

====
